---- MODULE Spec2Model ----
(***************************************************************************)
(* Model of the OCR claim-form pipeline of OCR_PADDLE:                     *)
(*   src/src/parsers/form_parser.py   FormParser                           *)
(*   src/src/ocr/postprocessor.py     TextPostprocessor                    *)
(*   src/src/parsers/pdf_parser.py    PDFParser.extract_text_if_possible   *)
(*   src/main.py                      DocumentOCRProcessor                 *)
(*                                                                         *)
(* A text is a sequence of tokens.  A token is either one character        *)
(* (" ", "\n", "r", "|", "9", "/", ...) or one literal phrase that the     *)
(* code looks for as a whole ("PART A: CLAIMANT INFORMATION", a page       *)
(* marker "--- Page 1 ---", "Page 1 of 3").  `phrase in text` of the       *)
(* source is membership of the phrase token in the sequence.               *)
(* An optional value (Python None / a missing dict key) is the empty       *)
(* sequence; a present value v is <<v>>.                                   *)
(***************************************************************************)
EXTENDS Integers, Sequences, FiniteSets, TLC

VARIABLES
    \* FormParser instance fields (form_parser.py:19-20)
    pages_data, document_metadata,
    \* direct calls of FormParser methods: arguments and return values
    in_text, in_num, out_doc, out_pages, out_section, first_section, out_page,
    \* TextPostprocessor.process applied once and twice to raw_text
    raw_text, cleaned_once, cleaned_twice,
    \* FormParser._normalize_date applied once and twice to date_str
    date_str, normalized_once, normalized_twice,
    \* one run of DocumentOCRProcessor.process_document: its arguments, the
    \* stage that fails in this run, its position and its locals
    input, preprocess, fault, pc,
    has_text, image_paths, all_text, all_detailed_results,
    cleaned_text, structured_form, result,
    \* what the run has done so far: the stages that raised, the calls of
    \* ImagePreprocessor.preprocess and OCREngine.extract_text, and the
    \* sources all_text was assigned from
    raised, preprocess_calls, ocr_calls, text_sources,
    \* the list and dict objects created by FormParser.__init__ (object 0) and
    \* by the parse_document call of thread t (object t), and the objects the
    \* fields self.pages_data and self.document_metadata are bound to
    obj_pages, obj_meta, pages_ref, meta_ref,
    \* parse_document calls running in threads on one FormParser: position,
    \* arguments, locals `pages` and `i`, and the objects `result` holds
    t_pc, t_args, t_pages, t_i, t_result,
    \* a direct call of one section extractor of FormParser on in_text: the
    \* field map it returns and the stage methods it called, in call order
    out_fields, stage_calls,
    \* the tables map of the page the last _parse_page call returned
    out_tables,
    \* the assignments the extractor of the last _parse_page call made to the
    \* fields it fills by a chain of strategies, in the order of its statements
    field_writes,
    \* the part_b map of the page the last _parse_page call returned
    out_part_b,
    \* TextPostprocessor.calculate_confidence_score: argument and return value
    detailed_results, confidence_score,
    \* measure_accuracy.py: calculate_cer(reference, hypothesis) and its value;
    \* the two documents main() loads and what it reports
    reference, hypothesis, cer, pred_json, truth_json, report,
    \* the output files the run of process_document has written so far
    output_files

parserVars == <<pages_data, document_metadata>>
callVars == <<in_text, in_num, out_doc, out_pages, out_section, first_section, out_page>>
normVars == <<raw_text, cleaned_once, cleaned_twice>>
dateVars == <<date_str, normalized_once, normalized_twice>>
runArgs == <<input, preprocess, fault>>
runLocals == <<has_text, image_paths, all_text, all_detailed_results,
               cleaned_text, structured_form, result>>
runHistory == <<raised, preprocess_calls, ocr_calls, text_sources>>
runVars == <<runArgs, pc, runLocals, runHistory>>
heapVars == <<obj_pages, obj_meta, pages_ref, meta_ref>>
threadLocals == <<t_pc, t_args, t_pages, t_i, t_result>>
threadVars == <<heapVars, threadLocals>>
fieldVars == <<out_fields, stage_calls, out_part_b, field_writes, out_tables>>
scoreVars == <<detailed_results, confidence_score>>
evalVars == <<reference, hypothesis, cer, pred_json, truth_json, report>>
restVars == <<fieldVars, scoreVars, evalVars, output_files>>
vars == <<parserVars, callVars, normVars, dateVars, runVars, threadVars, restVars>>

None == <<>>
Some(v) == <<v>>

-----------------------------------------------------------------------------
(* Bounds *)
MaxPageLen == 2      \* longest page text handed to _identify_section / _parse_page
MaxPageNum == 3      \* largest page number handed to them
MaxDocLen == 4       \* longest document text handed to parse_document / _split_pages
MaxNumPages == 2     \* largest num_pages argument of parse_document
MaxRawLen == 3       \* longest raw text handed to TextPostprocessor.process
MaxYearLen == 5      \* most digits in the year part of a date candidate
MaxJunkLen == 2      \* longest unstructured string handed to _normalize_date
MaxPages == 2        \* most pages of an input document
NumThreads == 2      \* threads calling parse_document on one FormParser
MaxDetections == 3   \* most recognized tokens handed to calculate_confidence_score
MaxLeafLen == 2      \* longest string leaf handed to calculate_cer
MaxWords == 3        \* most words after the header of a page handed to an extractor

-----------------------------------------------------------------------------
(* Tokens *)
PART_A == "PART A: CLAIMANT INFORMATION"
PART_B == "PART B: TRAVEL ASSISTANCE AND OTHER CLAIMS"
PART_C == "PART C: MEDICAL INFORMATION"
PART_D == "PART D: MEDICAL RECORD AUTHORIZATION"
SUPPLEMENT_A == "SUPPLEMENT A"
SUPPLEMENT_B == "SUPPLEMENT B"
SUPPLEMENT_C == "SUPPLEMENT C"
SUPPLEMENT_D == "SUPPLEMENT D"
THIRD_PARTY == "THIRD PARTY"

\* tokens matched by r'--- Page \d+ ---'
PageMarkers == {"--- Page 1 ---", "--- Page 2 ---", "--- Page 3 ---"}
\* tokens matched by r'Page \d+ of (\d+)', with the value of group 1
PageOfValue == [t \in {"Page 1 of 1", "Page 1 of 3"} |-> IF t = "Page 1 of 1" THEN 1 ELSE 3]
PageOfTokens == DOMAIN PageOfValue
\* tokens matched by r'DocuSign Envelope ID[:\s]*([A-Z0-9\-]+)', with group 1
EnvelopeValue == [t \in {"DocuSign Envelope ID: A1B2"} |-> "A1B2"]
EnvelopeTokens == DOMAIN EnvelopeValue
\* what str.strip() removes and \s matches
Whitespace == {" ", "\n", "\t"}
\* a character of [\u200b-\u200d\ufeff], here the zero-width space
ZeroWidth == {"ZWSP"}
\* [.,;:!?]
Punctuation == {".", ",", ";", ":", "!", "?"}
\* \d, with int() of each digit
DigitValue == [c \in {"0", "1", "2", "3", "4", "5", "6", "7", "8", "9"} |->
                 CASE c = "0" -> 0 [] c = "1" -> 1 [] c = "2" -> 2 [] c = "3" -> 3
                   [] c = "4" -> 4 [] c = "5" -> 5 [] c = "6" -> 6 [] c = "7" -> 7
                   [] c = "8" -> 8 [] c = "9" -> 9]
Digits == DOMAIN DigitValue
DigitChar == <<"1", "2", "3", "4", "5", "6", "7", "8", "9">>
\* tokens whose first and last character is a word character (\w): letters,
\* digits and the phrases that begin and end with one; the page markers
\* begin and end with "-"
WordTokens ==
    Digits \cup {"r", "n", "m", "l", "I", "O", "x"}
    \cup {PART_A, PART_B, PART_C, PART_D, SUPPLEMENT_A, SUPPLEMENT_B, SUPPLEMENT_C,
          SUPPLEMENT_D, THIRD_PARTY}
    \cup PageOfTokens \cup EnvelopeTokens

-----------------------------------------------------------------------------
(* Sequence helpers *)
RECURSIVE SeqsUpTo(_, _)
SeqsUpTo(S, n) ==
    IF n = 0 THEN {<<>>}
    ELSE LET shorter == SeqsUpTo(S, n - 1)
         IN shorter \cup {Append(s, x) : s \in {t \in shorter : Len(t) = n - 1}, x \in S}

Contains(text, tok) == \E i \in 1..Len(text) : text[i] = tok

RECURSIVE LStrip(_)
LStrip(s) == IF s # <<>> /\ Head(s) \in Whitespace THEN LStrip(Tail(s)) ELSE s

RECURSIVE RStrip(_)
RStrip(s) ==
    IF s # <<>> /\ s[Len(s)] \in Whitespace THEN RStrip(SubSeq(s, 1, Len(s) - 1)) ELSE s

\* str.strip()
Strip(s) == RStrip(LStrip(s))

\* re.split(page_pattern, text): the segments between the markers
RECURSIVE ReSplit(_)
ReSplit(text) ==
    IF text = <<>> THEN << <<>> >>
    ELSE LET rest == ReSplit(Tail(text))
         IN IF Head(text) \in PageMarkers
            THEN << <<>> >> \o rest
            ELSE << <<Head(text)>> \o rest[1] >> \o Tail(rest)

\* first token of the text that lies in S, as an optional value (re.search)
RECURSIVE FirstIn(_, _)
FirstIn(text, S) ==
    IF text = <<>> THEN None
    ELSE IF Head(text) \in S THEN Some(Head(text)) ELSE FirstIn(Tail(text), S)

-----------------------------------------------------------------------------
(* FormParser: pure methods *)

NonBlank(p) == Strip(p) # <<>>

\* a plausible slip: the first segment is dropped whether or not it is blank
SplitPagesDropFirst(text) ==
    LET pages == ReSplit(text)
        pages1 == IF pages # <<>> THEN Tail(pages) ELSE pages
        kept == SelectSeq(pages1, NonBlank)
    IN [i \in 1..Len(kept) |-> Strip(kept[i])]

\* FormParser._split_pages
_split_pages(text) ==
    LET pages == ReSplit(text)
        pages1 == IF pages # <<>> /\ ~NonBlank(pages[1]) THEN Tail(pages) ELSE pages
        kept == SelectSeq(pages1, NonBlank)
    IN [i \in 1..Len(kept) |-> Strip(kept[i])]

\* the empty dict {} of FormParser.__init__
EmptyMetadata ==
    [file_name |-> None, document_type |-> None, docu_sign_envelope_id |-> None,
     total_pages_from_document |-> None, total_pages |-> None]

\* FormParser._extract_document_metadata (extracted_at, the wall-clock time of
\* the call, is not interpreted by any operation and is left out)
_extract_document_metadata(text) ==
    LET docusign_match == FirstIn(text, EnvelopeTokens)
        page_match == FirstIn(text, PageOfTokens)
    IN [file_name |-> Some("unknown"),
        document_type |-> Some("WorldTrips Claimant Statement and Authorization"),
        docu_sign_envelope_id |->
            IF docusign_match # None THEN Some(EnvelopeValue[docusign_match[1]]) ELSE None,
        total_pages_from_document |->
            IF page_match # None THEN Some(PageOfValue[page_match[1]]) ELSE None,
        total_pages |-> None]

\* the section labels _identify_section can return (the dash of the
\* supplement labels is written "-")
SEC_A == "PART A: CLAIMANT INFORMATION"
SEC_A_CONT == "PART A (Continued) + PART B: TRAVEL ASSISTANCE AND OTHER CLAIMS"
SEC_C == "PART C: MEDICAL INFORMATION"
SEC_D == "PART D: MEDICAL RECORD AUTHORIZATION"
SEC_SUPP_A == "SUPPLEMENT A - NON-U.S. CLAIM ITEMIZATION FORM"
SEC_SUPP_B == "SUPPLEMENT B - ILLNESS OR INJURY"
SEC_SUPP_C_TP == "SUPPLEMENT C (Continued) + THIRD PARTY PAYMENT FORM"
SEC_SUPP_C == "SUPPLEMENT C - PAYMENT AUTHORIZATION AGREEMENT FORM"
SEC_SUPP_D == "SUPPLEMENT D - AUTHORIZATION FORM (PHI Disclosure)"
SEC_UNKNOWN == "UNKNOWN SECTION"

Sections == {SEC_A, SEC_A_CONT, SEC_C, SEC_D, SEC_SUPP_A, SEC_SUPP_B,
             SEC_SUPP_C_TP, SEC_SUPP_C, SEC_SUPP_D, SEC_UNKNOWN}

\* a plausible slip: the PART D test is made before the PART C test
IdentifySectionDBeforeC(text, page_num) ==
    IF Contains(text, PART_A) /\ page_num = 1 THEN SEC_A
    ELSE IF Contains(text, PART_A) /\ page_num = 2 THEN SEC_A_CONT
    ELSE IF Contains(text, PART_D) THEN SEC_D
    ELSE IF Contains(text, PART_C) THEN SEC_C
    ELSE IF Contains(text, SUPPLEMENT_A) THEN SEC_SUPP_A
    ELSE IF Contains(text, SUPPLEMENT_B) THEN SEC_SUPP_B
    ELSE IF Contains(text, SUPPLEMENT_C)
         THEN IF Contains(text, THIRD_PARTY) THEN SEC_SUPP_C_TP ELSE SEC_SUPP_C
    ELSE IF Contains(text, SUPPLEMENT_D) THEN SEC_SUPP_D
    ELSE SEC_UNKNOWN

\* a plausible slip: the page number is taken from the pages accumulated on
\* the parser instead of from the argument
IdentifySectionFromState(text, page_num) ==
    LET n == Len(pages_data) + 1
    IN IF Contains(text, PART_A) /\ n = 1 THEN SEC_A
       ELSE IF Contains(text, PART_A) /\ n = 2 THEN SEC_A_CONT
       ELSE IF Contains(text, PART_C) THEN SEC_C
       ELSE IF Contains(text, PART_D) THEN SEC_D
       ELSE IF Contains(text, SUPPLEMENT_A) THEN SEC_SUPP_A
       ELSE IF Contains(text, SUPPLEMENT_B) THEN SEC_SUPP_B
       ELSE IF Contains(text, SUPPLEMENT_C)
            THEN IF Contains(text, THIRD_PARTY) THEN SEC_SUPP_C_TP ELSE SEC_SUPP_C
       ELSE IF Contains(text, SUPPLEMENT_D) THEN SEC_SUPP_D
       ELSE SEC_UNKNOWN

\* FormParser._identify_section
_identify_section(text, page_num) ==
    IF Contains(text, PART_A) /\ page_num = 1 THEN SEC_A
    ELSE IF Contains(text, PART_A) /\ page_num = 2 THEN SEC_A_CONT
    ELSE IF Contains(text, PART_C) THEN SEC_C
    ELSE IF Contains(text, PART_D) THEN SEC_D
    ELSE IF Contains(text, SUPPLEMENT_A) THEN SEC_SUPP_A
    ELSE IF Contains(text, SUPPLEMENT_B) THEN SEC_SUPP_B
    ELSE IF Contains(text, SUPPLEMENT_C)
         THEN IF Contains(text, THIRD_PARTY) THEN SEC_SUPP_C_TP ELSE SEC_SUPP_C
    ELSE IF Contains(text, SUPPLEMENT_D) THEN SEC_SUPP_D
    ELSE SEC_UNKNOWN

\* `phrase in section` for the phrases _parse_page tests, by the label strings
SectionHas(section, phrase) ==
    CASE phrase = "PART A" -> section \in {SEC_A, SEC_A_CONT}
      [] phrase = "PART C" -> section = SEC_C
      [] phrase = "PART D" -> section = SEC_D
      [] phrase = "SUPPLEMENT A" -> section = SEC_SUPP_A
      [] phrase = "SUPPLEMENT B" -> section = SEC_SUPP_B
      [] phrase = "SUPPLEMENT C" -> section \in {SEC_SUPP_C_TP, SEC_SUPP_C}
      [] phrase = "SUPPLEMENT D" -> section = SEC_SUPP_D

\* the field map a section extractor returns for a page text; the extractor
\* is named, its fields are not interpreted here
FieldMap(extractor, page_text) == [extractor |-> extractor, text |-> page_text]

EmptyPage(page_text, page_num, section) ==
    [page |-> page_num, section |-> section, raw_text |-> page_text,
     form_fields |-> None, signatures |-> None, part_b |-> None,
     tables |-> None, third_party_payment_form |-> None]

\* a plausible slip: the dispatch of _parse_page tests the page text, not the
\* section label, so a PART A header on page 3 is parsed as page-1 PART A
ParsePageByText(page_text, page_num) ==
    LET section == _identify_section(page_text, page_num)
        page_data == EmptyPage(page_text, page_num, section)
    IN IF Contains(page_text, PART_A)
       THEN [page_data EXCEPT !.form_fields = Some(FieldMap("_parse_part_a", page_text))]
       ELSE page_data

\* FormParser._parse_page
_parse_page(page_text, page_num) ==
    LET section == _identify_section(page_text, page_num)
        page_data == EmptyPage(page_text, page_num, section)
    IN IF SectionHas(section, "PART A") /\ page_num = 1
       THEN [page_data EXCEPT !.form_fields = Some(FieldMap("_parse_part_a", page_text))]
       ELSE IF SectionHas(section, "PART A") /\ page_num = 2
       THEN [page_data EXCEPT
                !.form_fields = Some(FieldMap("_parse_part_a_continued", page_text)),
                !.part_b = Some(FieldMap("_parse_part_b", page_text))]
       ELSE IF SectionHas(section, "PART C")
       THEN [page_data EXCEPT !.form_fields = Some(FieldMap("_parse_part_c", page_text))]
       ELSE IF SectionHas(section, "PART D")
       THEN [page_data EXCEPT !.signatures = Some(FieldMap("_parse_part_d", page_text))]
       ELSE IF SectionHas(section, "SUPPLEMENT A")
       THEN [page_data EXCEPT !.tables = Some(FieldMap("_parse_supplement_a", page_text))]
       ELSE IF SectionHas(section, "SUPPLEMENT B")
       THEN [page_data EXCEPT !.tables = Some(FieldMap("_parse_supplement_b", page_text))]
       ELSE IF SectionHas(section, "SUPPLEMENT C")
       THEN [page_data EXCEPT
                !.form_fields = Some(FieldMap("_parse_supplement_c", page_text)),
                !.third_party_payment_form =
                    IF Contains(page_text, THIRD_PARTY)
                    THEN Some(FieldMap("_parse_third_party", page_text)) ELSE None]
       ELSE IF SectionHas(section, "SUPPLEMENT D")
       THEN [page_data EXCEPT !.form_fields = Some(FieldMap("_parse_supplement_d", page_text))]
       ELSE page_data

\* FormParser.parse_document, lines 40-44: the page loop
ParsedPages(pages) == [i \in 1..Len(pages) |-> _parse_page(pages[i], i)]

\* Python `num_pages or len(pages)`: None and 0 are falsy
NumPagesOr(num_pages, n) == IF num_pages # None /\ num_pages[1] # 0 THEN num_pages[1] ELSE n

\* FormParser.parse_document: the returned dictionary
parse_document(full_text, num_pages) ==
    LET pages == _split_pages(full_text)
        metadata == _extract_document_metadata(full_text)
    IN [document |-> [metadata EXCEPT !.total_pages = Some(NumPagesOr(num_pages, Len(pages)))],
        pages |-> ParsedPages(pages)]

-----------------------------------------------------------------------------
(* TextPostprocessor *)

\* re.sub(r' +', ' ', text)
RECURSIVE CollapseSpaces(_)
CollapseSpaces(t) ==
    IF t = <<>> THEN <<>>
    ELSE IF Len(t) >= 2 /\ t[1] = " " /\ t[2] = " " THEN CollapseSpaces(Tail(t))
    ELSE <<Head(t)>> \o CollapseSpaces(Tail(t))

\* re.sub(r'\n{3,}', '\n\n', text)
RECURSIVE CollapseNewlines(_)
CollapseNewlines(t) ==
    IF t = <<>> THEN <<>>
    ELSE IF Len(t) >= 3 /\ t[1] = "\n" /\ t[2] = "\n" /\ t[3] = "\n"
         THEN CollapseNewlines(Tail(t))
    ELSE <<Head(t)>> \o CollapseNewlines(Tail(t))

\* text.split('\n')
RECURSIVE SplitLines(_)
SplitLines(text) ==
    IF text = <<>> THEN << <<>> >>
    ELSE LET rest == SplitLines(Tail(text))
         IN IF Head(text) = "\n"
            THEN << <<>> >> \o rest
            ELSE << <<Head(text)>> \o rest[1] >> \o Tail(rest)

\* '\n'.join(lines)
RECURSIVE JoinLines(_)
JoinLines(lines) ==
    IF Len(lines) = 0 THEN <<>>
    ELSE IF Len(lines) = 1 THEN lines[1]
    ELSE lines[1] \o <<"\n">> \o JoinLines(Tail(lines))

\* TextPostprocessor._remove_extra_whitespace
_remove_extra_whitespace(text) ==
    LET t1 == CollapseSpaces(text)
        t2 == CollapseNewlines(t1)
        split == SplitLines(t2)
        lines == [i \in 1..Len(split) |-> Strip(split[i])]
    IN Strip(JoinLines(lines))

\* re.sub(r'\b<c>\b', to, text) for a one-character pattern c: the word
\* boundaries are those of the text the substitution is applied to
SubIsolated(text, c, to) ==
    [i \in 1..Len(text) |->
        IF /\ text[i] = c
           /\ (i = 1 \/ text[i - 1] \notin WordTokens)
           /\ (i = Len(text) \/ text[i + 1] \notin WordTokens)
        THEN to ELSE text[i]]

\* re.sub(<c>, to, text) for a one-character pattern c
SubChar(text, c, to) == [i \in 1..Len(text) |-> IF text[i] = c THEN to ELSE text[i]]

\* re.sub(r'rn', 'm', text): leftmost, non-overlapping
RECURSIVE SubRn(_)
SubRn(t) ==
    IF t = <<>> THEN <<>>
    ELSE IF Len(t) >= 2 /\ t[1] = "r" /\ t[2] = "n" THEN <<"m">> \o SubRn(SubSeq(t, 3, Len(t)))
    ELSE <<Head(t)>> \o SubRn(Tail(t))

\* TextPostprocessor._fix_common_errors: the corrections of error_corrections
\* in the order of the dictionary
_fix_common_errors(text) ==
    LET t1 == SubIsolated(text, "0", "O")
        t2 == SubIsolated(t1, "l", "I")
        t3 == SubRn(t2)
        t4 == SubChar(t3, "|", "I")
    IN SubChar(t4, "~", "-")

\* re.sub(r'[\u200b-\u200d\ufeff]', '', text)
StripZeroWidth(text) == SelectSeq(text, LAMBDA c : c \notin ZeroWidth)

\* re.sub(r'\s+([.,;:!?])', r'\1', text): a run of whitespace that ends at a
\* punctuation character is removed
RECURSIVE SpaceBeforePunct(_)
SpaceBeforePunct(t) ==
    /\ t # <<>>
    /\ Head(t) \in Whitespace
    /\ Len(t) >= 2
    /\ (t[2] \in Punctuation \/ SpaceBeforePunct(Tail(t)))

RECURSIVE FixPunctSpacing(_)
FixPunctSpacing(t) ==
    IF t = <<>> THEN <<>>
    ELSE IF SpaceBeforePunct(t) THEN FixPunctSpacing(Tail(t))
    ELSE <<Head(t)>> \o FixPunctSpacing(Tail(t))

\* TextPostprocessor._clean_special_characters (the four str.replace calls of
\* lines 91-92 replace a string by itself or look for a string that holds
\* `, "'").replace(`; they change no text of these tokens)
_clean_special_characters(text) == FixPunctSpacing(StripZeroWidth(text))

\* TextPostprocessor.process with POSTPROCESSING of config/settings.py
\* (remove_extra_whitespace and fix_common_ocr_errors are True)
process(text) ==
    IF text = <<>> THEN text
    ELSE _clean_special_characters(_fix_common_errors(_remove_extra_whitespace(text)))

-----------------------------------------------------------------------------
(* FormParser._normalize_date *)

AllDigits(s) == \A i \in 1..Len(s) : s[i] \in Digits

\* int(s) of a digit string
RECURSIVE IntOf(_)
IntOf(s) == IF s = <<>> THEN 0 ELSE 10 * IntOf(SubSeq(s, 1, Len(s) - 1)) + DigitValue[s[Len(s)]]

DigitOf(n) == IF n = 0 THEN "0" ELSE DigitChar[n]

\* f"{n:02d}" for 0 <= n <= 99
Format02d(n) == <<DigitOf(n \div 10), DigitOf(n % 10)>>

\* the groups (m, d, y) of r'^(\d{1,2})/(\d{1,2})/(\d{<ylen>})$' on s, or None
MatchDate(s, ylen) ==
    LET slashes == {i \in 1..Len(s) : s[i] = "/"}
    IN IF Cardinality(slashes) # 2 THEN None
       ELSE LET i == CHOOSE i \in slashes : \A j \in slashes : i <= j
                j == CHOOSE j \in slashes : \A i2 \in slashes : i2 <= j
                m == SubSeq(s, 1, i - 1)
                d == SubSeq(s, i + 1, j - 1)
                y == SubSeq(s, j + 1, Len(s))
            IN IF /\ Len(m) \in 1..2 /\ AllDigits(m)
                  /\ Len(d) \in 1..2 /\ AllDigits(d)
                  /\ Len(y) = ylen /\ AllDigits(y)
               THEN Some([m |-> m, d |-> d, y |-> y])
               ELSE None

\* FormParser._normalize_date; the argument and the result are optional strings
_normalize_date(date_opt) ==
    IF date_opt = None \/ date_opt[1] = <<>> THEN None
    ELSE LET s == Strip(date_opt[1])
             match4 == MatchDate(s, 4)
             match2 == MatchDate(s, 2)
         IN IF match4 # None
            THEN Some(Format02d(IntOf(match4[1].m)) \o <<"/">>
                      \o Format02d(IntOf(match4[1].d)) \o <<"/">> \o match4[1].y)
            ELSE IF match2 # None
            THEN Some(Format02d(IntOf(match2[1].m)) \o <<"/">>
                      \o Format02d(IntOf(match2[1].d)) \o <<"/", "2", "0">> \o match2[1].y)
            ELSE Some(s)

-----------------------------------------------------------------------------
(* Inputs *)
PageAlphabet == {PART_A, PART_B, PART_C, PART_D, SUPPLEMENT_A, SUPPLEMENT_B,
                 SUPPLEMENT_C, SUPPLEMENT_D, THIRD_PARTY, "x"}
PageTexts == SeqsUpTo(PageAlphabet, MaxPageLen)

DocAlphabet == {"--- Page 1 ---", "--- Page 2 ---", " ", "x", "Page 1 of 3", PART_A}
DocTexts == SeqsUpTo(DocAlphabet, MaxDocLen)
NumPagesArgs == {None} \cup {Some(n) : n \in 0..MaxNumPages}

\* documents parsed between two calls on a page, to vary the parser's fields
SampleDocs == {<<>>, <<"--- Page 1 ---", PART_A>>,
               <<"--- Page 1 ---", "x", "--- Page 2 ---", PART_C, "Page 1 of 3">>}

-----------------------------------------------------------------------------
(* FormParser: calls *)

InitParserFields ==
    /\ pages_data = <<>>
    /\ document_metadata = EmptyMetadata

InitOutputs ==
    /\ out_doc = None
    /\ out_pages = None
    /\ out_section = None
    /\ first_section = None
    /\ out_page = None

\* no normalizer call in progress
InitNormIdle ==
    /\ raw_text = <<>>
    /\ cleaned_once = None
    /\ cleaned_twice = None

\* no date call in progress
InitDateIdle ==
    /\ date_str = None
    /\ normalized_once = None
    /\ normalized_twice = None

\* no process_document run
InitRunIdle ==
    /\ input = [name |-> "", suffix |-> "", pages |-> <<>>]
    /\ preprocess = FALSE
    /\ fault = "none"
    /\ pc = "idle"
    /\ has_text = None
    /\ image_paths = None
    /\ all_text = None
    /\ all_detailed_results = None
    /\ cleaned_text = None
    /\ structured_form = None
    /\ result = None
    /\ raised = {}
    /\ preprocess_calls = 0
    /\ ocr_calls = 0
    /\ text_sources = <<>>

\* no thread has called parse_document: the fields are bound to the objects
\* of __init__
InitThreadsIdle ==
    /\ obj_pages = [o \in 0..NumThreads |-> <<>>]
    /\ obj_meta = [o \in 0..NumThreads |-> EmptyMetadata]
    /\ pages_ref = 0
    /\ meta_ref = 0
    /\ t_pc = [t \in 1..NumThreads |-> "idle"]
    /\ t_args = [t \in 1..NumThreads |-> [full_text |-> <<>>, num_pages |-> None]]
    /\ t_pages = [t \in 1..NumThreads |-> <<>>]
    /\ t_i = [t \in 1..NumThreads |-> 0]
    /\ t_result = [t \in 1..NumThreads |-> None]

\* no extractor, confidence or evaluator call made
InitRestIdle ==
    /\ out_fields = None
    /\ stage_calls = <<>>
    /\ out_tables = None
    /\ field_writes = <<>>
    /\ output_files = {}
    /\ out_part_b = None
    /\ detailed_results = <<>>
    /\ confidence_score = None
    /\ reference = None
    /\ hypothesis = None
    /\ cer = None
    /\ pred_json = None
    /\ truth_json = None
    /\ report = None

\* no direct FormParser call made
InitCallsIdle ==
    /\ in_text = <<>>
    /\ in_num = None
    /\ InitOutputs

\* what parse_document leaves on the parser: the objects the returned
\* dictionary holds (form_parser.py:38-53)
ParserHolds(doc) ==
    /\ document_metadata' = doc.document
    /\ pages_data' = doc.pages

\* a call parse_document(in_text, in_num)
CallParseDocument ==
    LET doc == parse_document(in_text, in_num)
    IN /\ ParserHolds(doc)
       /\ out_doc' = Some(doc)
       /\ UNCHANGED <<in_text, in_num, out_pages, out_section, first_section, out_page, normVars, dateVars, runVars, threadVars, restVars>>

\* a call _split_pages(in_text)
CallSplitPages ==
    /\ out_pages' = Some(_split_pages(in_text))
    /\ UNCHANGED <<parserVars, in_text, in_num, out_doc, out_section, first_section, out_page, normVars, dateVars, runVars, threadVars, restVars>>

\* a call _identify_section(in_text, in_num), recorded with the number of pages
\* the parser held when it was made; first_section keeps the first such call
CallIdentifySection ==
    LET call == [section |-> _identify_section(in_text, in_num),
                 pages_held |-> Len(pages_data)]
    IN /\ out_section' = Some(call)
       /\ first_section' = IF first_section = None THEN Some(call) ELSE first_section
       /\ UNCHANGED <<parserVars, in_text, in_num, out_doc, out_pages, out_page, normVars, dateVars, runVars, threadVars, restVars>>

\* a call _parse_page(in_text, in_num)
CallParsePage ==
    /\ out_page' = Some(_parse_page(in_text, in_num))
    /\ UNCHANGED <<parserVars, in_text, in_num, out_doc, out_pages, out_section, first_section, normVars, dateVars, runVars, threadVars, restVars>>

\* some other document is parsed on the same FormParser
ParseOtherDocument ==
    \E d \in SampleDocs :
        /\ ParserHolds(parse_document(d, None))
        /\ UNCHANGED <<callVars, normVars, dateVars, runVars, threadVars, restVars>>

\* page-level calls: one (page text, page number) pair per behaviour
InitPage ==
    /\ InitParserFields
    /\ InitRestIdle
    /\ InitThreadsIdle
    /\ InitRunIdle
    /\ InitOutputs
    /\ InitNormIdle
    /\ InitDateIdle
    /\ in_text \in PageTexts
    /\ in_num \in 1..MaxPageNum

NextPage == CallIdentifySection \/ CallParsePage \/ ParseOtherDocument

SpecPage == InitPage /\ [][NextPage]_vars

\* document-level calls: one (document text, num_pages) pair per behaviour
InitDoc ==
    /\ InitParserFields
    /\ InitRestIdle
    /\ InitThreadsIdle
    /\ InitRunIdle
    /\ InitOutputs
    /\ InitNormIdle
    /\ InitDateIdle
    /\ in_text \in DocTexts
    /\ in_num \in NumPagesArgs

NextDoc == CallParseDocument \/ CallSplitPages

SpecDoc == InitDoc /\ [][NextDoc]_vars

-----------------------------------------------------------------------------
(* DocumentOCRProcessor.process_document *)

\* f"--- Page {n} ---"
MarkerOf == <<"--- Page 1 ---", "--- Page 2 ---", "--- Page 3 ---">>

\* sep.join(parts)
RECURSIVE Join(_, _)
Join(parts, sep) ==
    IF Len(parts) = 0 THEN <<>>
    ELSE IF Len(parts) = 1 THEN parts[1]
    ELSE parts[1] \o sep \o Join(Tail(parts), sep)

\* the lines of a page as one text
PageText(page) == Join(page.lines, <<"\n">>)

\* page.extract_text() of PyPDF2: the text layer of the page, if it has one
TextLayer(page) == IF page.has_layer THEN PageText(page) ELSE <<>>

\* PDFParser.extract_text_if_possible, lines 134-147
extract_text_if_possible(pages) ==
    LET numbered == [n \in 1..Len(pages) |-> [n |-> n, text |-> TextLayer(pages[n])]]
        kept == SelectSeq(numbered, LAMBDA e : NonBlank(e.text))
        all == [k \in 1..Len(kept) |-> <<MarkerOf[kept[k].n], "\n">> \o kept[k].text]
        full_text == Join(all, <<"\n", "\n">>)
    IN IF NonBlank(full_text) THEN [has_text |-> TRUE, text |-> full_text]
       ELSE [has_text |-> FALSE, text |-> <<>>]

\* OCREngine.extract_text on the image of a page: the recognized lines joined
\* by newlines, and one detection per line
extract_text(page) ==
    [text |-> PageText(page),
     detailed |-> [k \in 1..Len(page.lines) |-> [text |-> page.lines[k]]]]

\* main.py:102-113, the recognition loop over the images
RECURSIVE OcrParts(_, _, _)
OcrParts(pages, paths, i) ==
    IF i > Len(paths) THEN <<>>
    ELSE LET text == extract_text(pages[paths[i].page]).text
         IN (IF text # <<>> THEN << <<"\n", MarkerOf[i], "\n">> \o text >> ELSE <<>>)
            \o OcrParts(pages, paths, i + 1)

RECURSIVE OcrDetailed(_, _, _)
OcrDetailed(pages, paths, i) ==
    IF i > Len(paths) THEN <<>>
    ELSE LET r == extract_text(pages[paths[i].page])
         IN (IF r.text # <<>>
             THEN [k \in 1..Len(r.detailed) |-> [text |-> r.detailed[k].text, page |-> i]]
             ELSE <<>>)
            \o OcrDetailed(pages, paths, i + 1)

\* main.py:121 and 165: len(image_paths) if image_paths else 1
NumPagesOf(paths) == IF Len(paths) > 0 THEN Len(paths) ELSE 1

\* a plausible slip: the failure dictionary also reports what was built
FailureWithPartial(e, form) ==
    [success |-> FALSE, error |-> Some(e), input_file |-> input.name,
     structured_form |-> form, num_pages |-> None]

\* main.py:174-178, the dictionary returned by the except clause
FailureResult(e, form) ==
    [success |-> FALSE, error |-> Some(e), input_file |-> input.name,
     structured_form |-> None, num_pages |-> None]

\* main.py:160-170, the dictionary returned on success
SuccessResult(form, paths) ==
    [success |-> TRUE, error |-> None, input_file |-> input.name,
     structured_form |-> form, num_pages |-> Some(NumPagesOf(paths))]

\* an exception reaches the except clause of process_document
Abort(stage) ==
    /\ result' = Some(FailureResult(stage, structured_form))
    /\ raised' = raised \cup {stage}
    /\ pc' = "done"

\* a stage catches its own exception, if the run has one for it
Swallow(stage) == raised' = IF fault = stage THEN raised \cup {stage} ELSE raised

notRun == <<parserVars, callVars, normVars, dateVars, threadVars, restVars>>

\* main.py:61, FileHandler.get_file_info (returns {} when it fails)
FileInfo ==
    /\ pc = "file_info"
    /\ Swallow("file_info")
    /\ pc' = "step1"
    /\ UNCHANGED <<notRun, runArgs, runLocals, preprocess_calls, ocr_calls, text_sources>>

\* main.py:65-75, a PDF whose text layer can be read
Step1Direct ==
    /\ pc = "step1"
    /\ input.suffix = ".pdf"
    /\ fault # "direct_text"
    /\ LET direct == extract_text_if_possible(input.pages)
       IN /\ direct.has_text
          /\ has_text' = Some(TRUE)
          /\ image_paths' = Some(<<>>)
          /\ all_text' = Some(direct.text)
          /\ all_detailed_results' = Some(<<>>)
          /\ text_sources' = Append(text_sources, "direct")
    /\ pc' = "step2"
    /\ UNCHANGED <<notRun, runArgs, cleaned_text, structured_form, result,
                   raised, preprocess_calls, ocr_calls>>

\* main.py:76-79, a PDF without readable text (extract_text_if_possible
\* returns (False, "") also when it fails): PDFParser.convert_to_images
Step1Rasterize ==
    /\ pc = "step1"
    /\ input.suffix = ".pdf"
    /\ fault = "direct_text" \/ ~extract_text_if_possible(input.pages).has_text
    /\ IF fault = "rasterize"
       THEN /\ Abort("rasterize")
            /\ has_text' = Some(FALSE)
            /\ UNCHANGED <<image_paths, all_text>>
       ELSE /\ has_text' = Some(FALSE)
            /\ image_paths' = Some([i \in 1..Len(input.pages) |->
                                       [page |-> i, preprocessed |-> FALSE]])
            /\ all_text' = None
            /\ raised' = IF fault = "direct_text" THEN raised \cup {"direct_text"} ELSE raised
            /\ pc' = "step2"
            /\ UNCHANGED result
    /\ UNCHANGED <<notRun, runArgs, all_detailed_results, cleaned_text, structured_form,
                   preprocess_calls, ocr_calls, text_sources>>

\* main.py:80-83, a single image file
Step1Image ==
    /\ pc = "step1"
    /\ input.suffix # ".pdf"
    /\ image_paths' = Some(<< [page |-> 1, preprocessed |-> FALSE] >>)
    /\ all_text' = None
    /\ pc' = "step2"
    /\ UNCHANGED <<notRun, runArgs, has_text, all_detailed_results, cleaned_text,
                   structured_form, result, runHistory>>

\* main.py:86, the guard of the preprocessing step
PreprocessNeeded(text, paths) == text = None /\ preprocess /\ Len(paths) > 0

\* main.py:85-94, ImagePreprocessor.preprocess on every image
Step2 ==
    /\ pc = "step2"
    /\ IF PreprocessNeeded(all_text, image_paths[1])
       THEN IF fault = "preprocess"
            THEN /\ Abort("preprocess")
                 /\ preprocess_calls' = preprocess_calls + 1
                 /\ UNCHANGED image_paths
            ELSE /\ image_paths' = Some([i \in 1..Len(image_paths[1]) |->
                                           [image_paths[1][i] EXCEPT !.preprocessed = TRUE]])
                 /\ preprocess_calls' = preprocess_calls + Len(image_paths[1])
                 /\ pc' = "step3"
                 /\ UNCHANGED <<result, raised>>
       ELSE /\ pc' = "step3"
            /\ UNCHANGED <<image_paths, preprocess_calls, result, raised>>
    /\ UNCHANGED <<notRun, runArgs, has_text, all_text, all_detailed_results, cleaned_text,
                   structured_form, ocr_calls, text_sources>>

\* a plausible slip: recognition runs whenever the run reaches step 3
OcrAlways(text) == TRUE

\* main.py:97, the guard of the recognition step
OcrNeeded(text) == text = None

\* main.py:96-113, OCREngine.extract_text on every image
Step3 ==
    /\ pc = "step3"
    /\ IF OcrNeeded(all_text)
       THEN IF fault = "ocr" /\ Len(image_paths[1]) > 0
            THEN /\ Abort("ocr")
                 /\ ocr_calls' = ocr_calls + 1
                 /\ all_detailed_results' = Some(<<>>)
                 /\ UNCHANGED <<all_text, text_sources>>
            ELSE /\ all_text' = Some(Join(OcrParts(input.pages, image_paths[1], 1), <<"\n">>))
                 /\ all_detailed_results' = Some(OcrDetailed(input.pages, image_paths[1], 1))
                 /\ ocr_calls' = ocr_calls + Len(image_paths[1])
                 /\ text_sources' = Append(text_sources, "ocr")
                 /\ pc' = "step4"
                 /\ UNCHANGED <<result, raised>>
       ELSE /\ pc' = "step4"
            /\ UNCHANGED <<all_text, all_detailed_results, ocr_calls, text_sources,
                           result, raised>>
    /\ UNCHANGED <<notRun, runArgs, has_text, image_paths, cleaned_text, structured_form,
                   preprocess_calls>>

\* what TextPostprocessor.process returns when one of its steps raises: the
\* except clause of line 60 returns the text as far as it was processed
ProcessInterrupted(text) ==
    {text, _remove_extra_whitespace(text), _fix_common_errors(_remove_extra_whitespace(text))}

\* main.py:115-117, TextPostprocessor.process
Step4 ==
    /\ pc = "step4"
    /\ IF fault = "normalize" /\ all_text[1] # <<>>
       THEN /\ \E t \in ProcessInterrupted(all_text[1]) : cleaned_text' = Some(t)
            /\ raised' = raised \cup {"normalize"}
       ELSE /\ cleaned_text' = Some(process(all_text[1]))
            /\ UNCHANGED raised
    /\ pc' = "step5"
    /\ UNCHANGED <<notRun, runArgs, has_text, image_paths, all_text, all_detailed_results,
                   structured_form, result, preprocess_calls, ocr_calls, text_sources>>

\* main.py:119-122, FormParser.parse_document; when _parse_page raises on
\* page k the parser keeps the new metadata and the pages parsed before it
Step5 ==
    /\ pc = "step5"
    /\ LET num_pages == NumPagesOf(image_paths[1])
           doc == parse_document(cleaned_text[1], Some(num_pages))
       IN IF fault = "parse" /\ Len(doc.pages) > 0
          THEN /\ Abort("parse")
               /\ \E k \in 1..Len(doc.pages) :
                     /\ pages_data' = SubSeq(doc.pages, 1, k - 1)
                     /\ document_metadata' = _extract_document_metadata(cleaned_text[1])
               /\ UNCHANGED structured_form
          ELSE /\ ParserHolds(doc)
               /\ structured_form' = Some(doc)
               /\ pc' = "fields"
               /\ UNCHANGED <<result, raised>>
    /\ UNCHANGED <<callVars, normVars, dateVars, threadVars, restVars, runArgs, has_text, image_paths,
                   all_text, all_detailed_results, cleaned_text, preprocess_calls,
                   ocr_calls, text_sources>>

\* main.py:124-133, TextPostprocessor.extract_fields (catches its own
\* exceptions) and calculate_confidence_score
Fields ==
    /\ pc = "fields"
    /\ Swallow("extract_fields")
    /\ pc' = "step6"
    /\ UNCHANGED <<notRun, runArgs, runLocals, preprocess_calls, ocr_calls, text_sources>>

\* main.py:180-227, the files _save_results writes, in the order of its
\* save_text and save_json calls
SavedFiles(form, detailed) ==
    <<"text">> \o (IF form # None THEN <<"form_json">> ELSE <<>>) \o <<"json">>
    \o (IF detailed # <<>> THEN <<"detailed">> ELSE <<>>)

\* main.py:131-133 and 139: all_detailed_results if all_text else []
DetailedOrEmpty(text, detailed) == IF text # <<>> THEN detailed ELSE <<>>

\* main.py:135-145, _save_results; when a save raises (file_handler.py:36-38
\* and 62-64 re-raise), the files of the earlier saves stay and the file
\* being written is there or not
Step6 ==
    /\ pc = "step6"
    /\ LET files == SavedFiles(structured_form,
                               DetailedOrEmpty(all_text[1], all_detailed_results[1]))
       IN IF fault = "save"
          THEN /\ Abort("save")
               /\ \E k \in 1..Len(files), partial \in BOOLEAN :
                      output_files' = {files[j] : j \in 1..(k - 1)}
                                      \cup (IF partial THEN {files[k]} ELSE {})
          ELSE /\ pc' = "cleanup"
               /\ output_files' = {files[j] : j \in 1..Len(files)}
               /\ UNCHANGED <<result, raised>>
    /\ UNCHANGED <<parserVars, callVars, normVars, dateVars, threadVars, fieldVars,
                   scoreVars, evalVars, runArgs, has_text, image_paths, all_text,
                   all_detailed_results, cleaned_text, structured_form, preprocess_calls,
                   ocr_calls, text_sources>>

\* main.py:147-170, FileHandler.cleanup_temp_files (catches its own
\* exceptions) and the return of the result
Finish ==
    /\ pc = "cleanup"
    /\ Swallow("cleanup")
    /\ result' = Some(SuccessResult(structured_form, image_paths[1]))
    /\ pc' = "done"
    /\ UNCHANGED <<notRun, runArgs, has_text, image_paths, all_text, all_detailed_results,
                   cleaned_text, structured_form, preprocess_calls, ocr_calls, text_sources>>

\* the recognized lines of a page
PageLines == { <<>>, << <<PART_A>> >>, << <<PART_A>>, <<PART_B, " ", " ", "Page 1 of 3">> >> }
InputPages == {[lines |-> l, has_layer |-> h] : l \in PageLines, h \in BOOLEAN}
Inputs ==
    {[name |-> "claim.pdf", suffix |-> ".pdf", pages |-> ps] : ps \in SeqsUpTo(InputPages, MaxPages)}
    \cup {[name |-> "scan.png", suffix |-> ".png", pages |-> <<pg>>] :
             pg \in {q \in InputPages : ~q.has_layer}}

\* the stages of a run that can raise
SwallowingStages == {"file_info", "direct_text", "normalize", "extract_fields", "cleanup"}
PropagatingStages == {"rasterize", "preprocess", "ocr", "parse", "save"}
FaultPoints == SwallowingStages \cup PropagatingStages

InitRun ==
    /\ InitParserFields
    /\ InitRestIdle
    /\ InitThreadsIdle
    /\ InitCallsIdle
    /\ InitNormIdle
    /\ InitDateIdle
    /\ input \in Inputs
    /\ preprocess \in BOOLEAN
    /\ fault \in FaultPoints \cup {"none"}
    /\ pc = "file_info"
    /\ has_text = None
    /\ image_paths = None
    /\ all_text = None
    /\ all_detailed_results = None
    /\ cleaned_text = None
    /\ structured_form = None
    /\ result = None
    /\ raised = {}
    /\ preprocess_calls = 0
    /\ ocr_calls = 0
    /\ text_sources = <<>>

NextRun ==
    \/ FileInfo
    \/ Step1Direct
    \/ Step1Rasterize
    \/ Step1Image
    \/ Step2
    \/ Step3
    \/ Step4
    \/ Step5
    \/ Fields
    \/ Step6
    \/ Finish

SpecRun == InitRun /\ [][NextRun]_vars

-----------------------------------------------------------------------------
(* FormParser.parse_document called from several threads on one parser; a
   thread can be preempted between any two statements *)

Threads == 1..NumThreads

notThreads == <<callVars, normVars, dateVars, runVars, restVars>>

\* the values of the objects the parser's fields are bound to
FieldsFollow ==
    /\ pages_data' = obj_pages'[pages_ref']
    /\ document_metadata' = obj_meta'[meta_ref']

\* form_parser.py:35, pages = self._split_pages(full_text)
TSplit(t) ==
    /\ t_pc[t] = "line35"
    /\ t_pages' = [t_pages EXCEPT ![t] = _split_pages(t_args[t].full_text)]
    /\ t_pc' = [t_pc EXCEPT ![t] = "line38"]
    /\ UNCHANGED <<parserVars, heapVars, t_args, t_i, t_result, notThreads>>

\* form_parser.py:38, self.document_metadata = self._extract_document_metadata(full_text)
TMetadata(t) ==
    /\ t_pc[t] = "line38"
    /\ obj_meta' = [obj_meta EXCEPT ![t] = _extract_document_metadata(t_args[t].full_text)]
    /\ meta_ref' = t
    /\ t_pc' = [t_pc EXCEPT ![t] = "line41"]
    /\ UNCHANGED <<obj_pages, pages_ref, t_args, t_pages, t_i, t_result, notThreads>>
    /\ FieldsFollow

\* line 41 as self.pages_data.clear(): the list the field is bound to is
\* emptied in place and no new list is created
TResetInPlace(t) ==
    /\ t_pc[t] = "line41"
    /\ obj_pages' = [obj_pages EXCEPT ![pages_ref] = <<>>]
    /\ t_i' = [t_i EXCEPT ![t] = 1]
    /\ t_pc' = [t_pc EXCEPT ![t] = "line42"]
    /\ UNCHANGED <<obj_meta, pages_ref, meta_ref, t_args, t_pages, t_result, notThreads>>
    /\ FieldsFollow

\* form_parser.py:41, self.pages_data = []
TReset(t) ==
    /\ t_pc[t] = "line41"
    /\ obj_pages' = [obj_pages EXCEPT ![t] = <<>>]
    /\ pages_ref' = t
    /\ t_i' = [t_i EXCEPT ![t] = 1]
    /\ t_pc' = [t_pc EXCEPT ![t] = "line42"]
    /\ UNCHANGED <<obj_meta, meta_ref, t_args, t_pages, t_result, notThreads>>
    /\ FieldsFollow

\* form_parser.py:42-44, one turn of the loop: the page is appended to the
\* list self.pages_data is bound to at that moment
TParsePage(t) ==
    /\ t_pc[t] = "line42"
    /\ t_i[t] <= Len(t_pages[t])
    /\ obj_pages' = [obj_pages EXCEPT
                        ![pages_ref] = Append(@, _parse_page(t_pages[t][t_i[t]], t_i[t]))]
    /\ t_i' = [t_i EXCEPT ![t] = @ + 1]
    /\ UNCHANGED <<obj_meta, pages_ref, meta_ref, t_pc, t_args, t_pages, t_result, notThreads>>
    /\ FieldsFollow

\* form_parser.py:47-50, result = {'document': self.document_metadata,
\* 'pages': self.pages_data}: result holds the objects the fields are bound to
TBuild(t) ==
    /\ t_pc[t] = "line42"
    /\ t_i[t] > Len(t_pages[t])
    /\ t_result' = [t_result EXCEPT ![t] = Some([document |-> meta_ref, pages |-> pages_ref])]
    /\ t_pc' = [t_pc EXCEPT ![t] = "line53"]
    /\ UNCHANGED <<parserVars, heapVars, t_args, t_pages, t_i, notThreads>>

\* form_parser.py:53-55, result['document']['total_pages'] = num_pages or
\* len(pages), and the return
TTotal(t) ==
    /\ t_pc[t] = "line53"
    /\ obj_meta' = [obj_meta EXCEPT
                       ![t_result[t][1].document].total_pages =
                           Some(NumPagesOr(t_args[t].num_pages, Len(t_pages[t])))]
    /\ t_pc' = [t_pc EXCEPT ![t] = "done"]
    /\ UNCHANGED <<obj_pages, pages_ref, meta_ref, t_args, t_pages, t_i, t_result, notThreads>>
    /\ FieldsFollow

\* the dictionary a finished call returned, as its caller sees it
Returned(t) ==
    [document |-> obj_meta[t_result[t][1].document],
     pages |-> obj_pages[t_result[t][1].pages]]

ThreadDocs == {<<"--- Page 1 ---", PART_A>>,
               <<"--- Page 1 ---", "x", "--- Page 2 ---", PART_C, "Page 1 of 3">>}
ThreadArgs == {[full_text |-> d, num_pages |-> n] : d \in ThreadDocs, n \in {None, Some(2)}}

InitThreads ==
    /\ InitParserFields
    /\ InitRestIdle
    /\ InitCallsIdle
    /\ InitNormIdle
    /\ InitDateIdle
    /\ InitRunIdle
    /\ obj_pages = [o \in 0..NumThreads |-> <<>>]
    /\ obj_meta = [o \in 0..NumThreads |-> EmptyMetadata]
    /\ pages_ref = 0
    /\ meta_ref = 0
    /\ t_pc = [t \in Threads |-> "line35"]
    /\ t_args \in [Threads -> ThreadArgs]
    /\ t_pages = [t \in Threads |-> <<>>]
    /\ t_i = [t \in Threads |-> 0]
    /\ t_result = [t \in Threads |-> None]

NextThreads ==
    \E t \in Threads :
        \/ TSplit(t)
        \/ TMetadata(t)
        \/ TReset(t)
        \/ TParsePage(t)
        \/ TBuild(t)
        \/ TTotal(t)

SpecThreads == InitThreads /\ [][NextThreads]_vars

-----------------------------------------------------------------------------
(* Properties of the section classifier and the page parser (SpecPage) *)

\* C1: _identify_section is total and deterministic: every call returns one of
\* the fixed section labels, and a call on a (text, page number) pair returns
\* the label the first call on that pair returned, whatever the parser has
\* parsed in between.
C1_SectionTotalDeterministic ==
    out_section # None =>
        /\ out_section[1].section \in Sections
        /\ out_section[1].section = first_section[1].section

\* a PART A page 1 was classified on a fresh parser and again after the parser
\* had parsed a two-page document
C1_Witness ==
    /\ out_section # None
    /\ out_section[1] = [section |-> SEC_A, pages_held |-> 2]
    /\ first_section[1].pages_held = 0
    /\ in_num = 1

FieldMapKeys == {"form_fields", "signatures", "part_b", "tables", "third_party_payment_form"}

PresentMaps(p) == {k \in FieldMapKeys : p[k] # None}

\* the field maps the section of a page defines
SectionMaps(section) ==
    CASE section = SEC_A -> {"form_fields"}
      [] section = SEC_A_CONT -> {"form_fields", "part_b"}
      [] section = SEC_C -> {"form_fields"}
      [] section = SEC_D -> {"signatures"}
      [] section = SEC_SUPP_A -> {"tables"}
      [] section = SEC_SUPP_B -> {"tables"}
      [] section = SEC_SUPP_C -> {"form_fields"}
      [] section = SEC_SUPP_C_TP -> {"form_fields", "third_party_payment_form"}
      [] section = SEC_SUPP_D -> {"form_fields"}
      [] section = SEC_UNKNOWN -> {}

PageCarriesOnlyItsMaps(p) ==
    /\ p.page \in 1..MaxPageNum
    /\ p.section \in Sections
    /\ PresentMaps(p) = SectionMaps(p.section)

\* C8: every page produced by _parse_page carries page, section and raw_text
\* and exactly the field maps its section defines; a page of the unknown
\* section carries none.
C8_PageMapsMatchSection ==
    /\ out_page # None =>
          /\ out_page[1].page = in_num
          /\ out_page[1].raw_text = in_text
          /\ PageCarriesOnlyItsMaps(out_page[1])
    /\ \A i \in 1..Len(pages_data) : PageCarriesOnlyItsMaps(pages_data[i])

\* a page with the claimant-information header on page 3 was parsed: the
\* header is ignored there and the page carries no field map
C8_Witness ==
    /\ out_page # None
    /\ Contains(in_text, PART_A)
    /\ in_num = 3
    /\ out_page[1].section = SEC_UNKNOWN
    /\ PresentMaps(out_page[1]) = {}

-----------------------------------------------------------------------------
(* Properties of segmentation and document assembly (SpecDoc) *)

\* the marker at position i is followed, before the next marker or the end of
\* the text, by a token that is not whitespace
MarkerHasContent(text, i) ==
    /\ text[i] \in PageMarkers
    /\ \E j \in (i + 1)..Len(text) :
          /\ text[j] \notin Whitespace
          /\ \A k \in (i + 1)..j : text[k] \notin PageMarkers

MarkersWithContent(text) == Cardinality({i \in 1..Len(text) : MarkerHasContent(text, i)})

\* the text before the first marker holds a token that is not whitespace
HasPreamble(text) ==
    \E j \in 1..Len(text) :
        /\ text[j] \notin Whitespace
        /\ \A k \in 1..j : text[k] \notin PageMarkers

NoBlankPage(pages) ==
    \A i \in 1..Len(pages) : pages[i] # <<>> /\ Strip(pages[i]) = pages[i]

\* C4 as stated: the number of page texts equals the number of markers
\* followed by non-whitespace content, text before the first marker never
\* becomes a page, and no returned entry is blank.
C4_PagesEqualMarkers ==
    out_pages # None =>
        /\ Len(out_pages[1]) = MarkersWithContent(in_text)
        /\ NoBlankPage(out_pages[1])

\* C4 amended: only a blank text before the first marker is discarded; a
\* non-blank one becomes the first page, so the number of page texts is the
\* number of markers followed by non-whitespace content plus one when such a
\* preamble exists; no returned entry is empty or all-whitespace.
C4_PagesEqualMarkersPlusPreamble ==
    out_pages # None =>
        /\ Len(out_pages[1]) =
              MarkersWithContent(in_text) + (IF HasPreamble(in_text) THEN 1 ELSE 0)
        /\ NoBlankPage(out_pages[1])

\* a text with a blank preamble, a marker with padded content and a marker
\* with no content was split into one page
C4_Witness ==
    /\ out_pages # None
    /\ in_text = <<" ", "--- Page 1 ---", "x", "--- Page 2 ---">>
    /\ out_pages[1] = << <<"x">> >>

\* C3 as stated: total_pages of a returned document is Y of an in-text
\* "Page X of Y" marker when there is one, and the number of segmented pages
\* otherwise.
C3_TotalPagesReconciled ==
    out_doc # None =>
        LET doc == out_doc[1]
            page_match == FirstIn(in_text, PageOfTokens)
        IN doc.document.total_pages =
              IF page_match # None THEN Some(PageOfValue[page_match[1]])
              ELSE Some(Len(doc.pages))

-----------------------------------------------------------------------------
(* Text Normalizer and date normalization: inputs and calls *)

RawAlphabet == {" ", "\n", "r", "n", "ZWSP", ".", "l", "|", "0", "~"}
RawTexts == SeqsUpTo(RawAlphabet, MaxRawLen)

MonthParts == {<<"9">>, <<"0", "7">>, <<"1", "2", "3">>}
DayParts == {<<"5">>, <<"0", "9">>, <<"x">>}
YearParts == SeqsUpTo({"2", "3"}, MaxYearLen)
Pads == {<<>>, <<" ">>}
\* date candidates: padded month/day/year strings, and short arbitrary strings
DateStrings ==
    {l \o m \o <<"/">> \o d \o <<"/">> \o y \o r :
        l \in Pads, m \in MonthParts, d \in DayParts, y \in YearParts, r \in Pads}
    \cup SeqsUpTo({" ", "/", "2", "x"}, MaxJunkLen)
DateArgs == {None} \cup {Some(s) : s \in DateStrings}

\* process(raw_text)
CallProcess ==
    /\ cleaned_once' = Some(process(raw_text))
    /\ UNCHANGED <<parserVars, callVars, raw_text, cleaned_twice, dateVars, runVars, threadVars, restVars>>

\* process(process(raw_text))
CallProcessAgain ==
    /\ cleaned_once # None
    /\ cleaned_twice' = Some(process(cleaned_once[1]))
    /\ UNCHANGED <<parserVars, callVars, raw_text, cleaned_once, dateVars, runVars, threadVars, restVars>>

InitNorm ==
    /\ InitParserFields
    /\ InitRestIdle
    /\ InitThreadsIdle
    /\ InitRunIdle
    /\ InitCallsIdle
    /\ InitDateIdle
    /\ raw_text \in RawTexts
    /\ cleaned_once = None
    /\ cleaned_twice = None

NextNorm == CallProcess \/ CallProcessAgain

SpecNorm == InitNorm /\ [][NextNorm]_vars

\* _normalize_date(date_str)
CallNormalizeDate ==
    /\ normalized_once' = Some(_normalize_date(date_str))
    /\ UNCHANGED <<parserVars, callVars, normVars, date_str, normalized_twice, runVars, threadVars, restVars>>

\* _normalize_date(_normalize_date(date_str))
CallNormalizeDateAgain ==
    /\ normalized_once # None
    /\ normalized_twice' = Some(_normalize_date(normalized_once[1]))
    /\ UNCHANGED <<parserVars, callVars, normVars, date_str, normalized_once, runVars, threadVars, restVars>>

InitDate ==
    /\ InitParserFields
    /\ InitRestIdle
    /\ InitThreadsIdle
    /\ InitRunIdle
    /\ InitCallsIdle
    /\ InitNormIdle
    /\ date_str \in DateArgs
    /\ normalized_once = None
    /\ normalized_twice = None

NextDate == CallNormalizeDate \/ CallNormalizeDateAgain

SpecDate == InitDate /\ [][NextDate]_vars

\* C9 as stated: the Text Normalizer is idempotent, process(process(x)) =
\* process(x) for every text x, with all three steps enabled.
C9_ProcessIdempotent ==
    cleaned_twice # None => cleaned_twice = cleaned_once

\* zero-pad a one- or two-digit string to two digits
Pad2(s) == IF Len(s) = 1 THEN <<"0">> \o s ELSE s

\* C10 as stated: an M/D/YYYY input is rewritten to zero-padded MM/DD/YYYY, an
\* M/D/YY input to MM/DD/20YY, any other non-empty string is returned
\* unchanged apart from trimming, and applying _normalize_date twice gives the
\* same result as applying it once.
C10_DateNormalized ==
    (normalized_once # None /\ date_str # None /\ date_str[1] # <<>>) =>
        LET s == Strip(date_str[1])
            m4 == MatchDate(s, 4)
            m2 == MatchDate(s, 2)
            once == normalized_once[1]
        IN /\ m4 # None =>
                once = Some(Pad2(m4[1].m) \o <<"/">> \o Pad2(m4[1].d) \o <<"/">> \o m4[1].y)
           /\ m2 # None =>
                once = Some(Pad2(m2[1].m) \o <<"/">> \o Pad2(m2[1].d)
                            \o <<"/", "2", "0">> \o m2[1].y)
           /\ (m4 = None /\ m2 = None) => once = Some(s)
           /\ normalized_twice # None => normalized_twice[1] = once

-----------------------------------------------------------------------------
(* Properties of a process_document run (SpecRun) *)

\* the page markers of a text, in order
MarkersIn(text) == SelectSeq(text, LAMBDA c : c \in PageMarkers)

\* the two-page blob of the end-to-end scenario: `--- Page 1 ---`, a page with
\* the claimant-information header, `--- Page 2 ---`, a page with the same
\* header and the travel-assistance header
IsScenarioBlob(text) ==
    LET segs == ReSplit(text)
    IN /\ MarkersIn(text) = <<"--- Page 1 ---", "--- Page 2 ---">>
       /\ ~NonBlank(segs[1])
       /\ Contains(segs[2], PART_A)
       /\ ~Contains(segs[2], PART_B)
       /\ Contains(segs[3], PART_A)
       /\ Contains(segs[3], PART_B)

\* C2 as stated: the scenario blob is segmented into exactly two pages, page 1
\* is claimant-information, page 2 the continued/assistance composite, and
\* the structured document has total_pages = 2, also when the blob reaches
\* the parser through the direct-text path of process_document.
C2_EndToEndTwoPages ==
    (pc = "done" /\ result[1].success /\ IsScenarioBlob(all_text[1])) =>
        LET form == result[1].structured_form[1]
        IN /\ Len(form.pages) = 2
           /\ form.pages[1].section = SEC_A
           /\ form.pages[2].section = SEC_A_CONT
           /\ form.document.total_pages = Some(2)

\* the dictionary of the except clause: the error, the input, nothing else
IsFailure(r, causes) ==
    /\ ~r.success
    /\ r.error # None /\ r.error[1] \in causes
    /\ r.input_file = input.name
    /\ r.structured_form = None
    /\ r.num_pages = None

\* the stages the claim names: rasterization, preprocessing, recognition, text
\* normalization, parsing, saving
ClaimedStages == {"rasterize", "preprocess", "ocr", "normalize", "parse", "save"}

\* C5 as stated: whenever any stage of the run raises, the run returns a
\* Failure carrying the error and the input and no structured output.
C5_AnyRaiseAborts ==
    (pc = "done" /\ raised \cap ClaimedStages # {}) =>
        IsFailure(result[1], raised \cap ClaimedStages)

\* C5 amended: whenever rasterization, preprocessing, recognition, parsing or
\* saving raises, the run returns a Failure carrying that error and the input
\* and no structured output; an exception inside file-info lookup, direct
\* text extraction, text normalization, field extraction or temp cleanup is
\* caught inside that stage and the run goes on to return success.
C5_PropagatedRaiseAborts ==
    pc = "done" =>
        IF raised \cap PropagatingStages # {}
        THEN IsFailure(result[1], raised \cap PropagatingStages)
        ELSE result[1].success /\ result[1].structured_form = structured_form
                /\ structured_form # None

\* saving raised after the structured form had been built
C5_Witness ==
    /\ pc = "done"
    /\ raised = {"save"}
    /\ structured_form # None
    /\ ~result[1].success

\* C7: the text source of a run is decided once: all_text is assigned from one
\* source only; when direct extraction reported text, no image is
\* preprocessed or recognized, the token list is empty and the text stays the
\* directly extracted one; otherwise the text comes from recognition only.
C7_TextSourceDecidedOnce ==
    /\ Len(text_sources) <= 1
    /\ has_text = Some(TRUE) =>
          /\ preprocess_calls = 0
          /\ ocr_calls = 0
          /\ text_sources = <<"direct">>
          /\ all_detailed_results = Some(<<>>)
          /\ all_text = Some(extract_text_if_possible(input.pages).text)
    /\ has_text # Some(TRUE) =>
          /\ \A i \in 1..Len(text_sources) : text_sources[i] = "ocr"
          /\ all_text # None => text_sources = <<"ocr">>

\* a run with preprocessing requested finished on the direct text of a PDF
\* one of whose two pages has no text layer
C7_Witness ==
    /\ pc = "done"
    /\ result[1].success
    /\ has_text = Some(TRUE)
    /\ preprocess
    /\ Len(input.pages) = 2
    /\ \E i \in 1..2 : ~input.pages[i].has_layer /\ input.pages[i].lines # <<>>

-----------------------------------------------------------------------------
(* Properties of concurrent parse_document calls (SpecThreads) *)

\* C6 as stated: when two runs execute concurrently on the same FormParser,
\* the document accumulated by one is never read or written by the other:
\* each returned document holds exactly the pages and metadata of its own
\* input, in page order.
C6_RunsIsolated ==
    \A t \in Threads :
        t_pc[t] = "done" =>
            Returned(t) = parse_document(t_args[t].full_text, t_args[t].num_pages)

-----------------------------------------------------------------------------
(* Section classifier: order of the marker predicates *)

\* the marker predicates in the order the claim lists them, each with the
\* section it decides; the last one always holds
MarkerRules(text, page_num) ==
    << <<Contains(text, PART_A) /\ page_num = 1, SEC_A>>,
       <<Contains(text, PART_A) /\ page_num = 2, SEC_A_CONT>>,
       <<Contains(text, PART_C), SEC_C>>,
       <<Contains(text, PART_D), SEC_D>>,
       <<Contains(text, SUPPLEMENT_A), SEC_SUPP_A>>,
       <<Contains(text, SUPPLEMENT_B), SEC_SUPP_B>>,
       <<Contains(text, SUPPLEMENT_C) /\ Contains(text, THIRD_PARTY), SEC_SUPP_C_TP>>,
       <<Contains(text, SUPPLEMENT_C), SEC_SUPP_C>>,
       <<Contains(text, SUPPLEMENT_D), SEC_SUPP_D>>,
       <<TRUE, SEC_UNKNOWN>> >>

\* the section of the earliest rule that holds
FirstHolding(rules) ==
    LET first == CHOOSE i \in 1..Len(rules) :
                     /\ rules[i][1]
                     /\ \A j \in 1..(i - 1) : ~rules[j][1]
    IN rules[first][2]

\* C19: the classifier evaluates its marker predicates in the fixed order
\* claimant-information header (page 1, then page 2, ignored on any other
\* page), PART C, PART D, SUPPLEMENT A, B, C (third-party variant when
\* THIRD PARTY is present), D, else UNKNOWN SECTION; the earliest predicate
\* that holds decides the section of every call.
C19_FirstMarkerDecides ==
    out_section # None =>
        out_section[1].section = FirstHolding(MarkerRules(in_text, in_num))

\* a page-3 text with the claimant-information header and a later marker was
\* classified, and so was a text with two markers of different rank
C19_Witness ==
    /\ out_section # None
    /\ \/ /\ in_num = 3
          /\ in_text = <<SUPPLEMENT_B, PART_A>>
          /\ out_section[1].section = SEC_SUPP_B
       \/ /\ in_text = <<PART_D, PART_C>>
          /\ out_section[1].section = SEC_C

-----------------------------------------------------------------------------
(* TextPostprocessor.calculate_confidence_score *)

\* token confidences in hundredths; OCREngine.extract_text keeps the tokens
\* whose confidence is at least 0.5 (engine.py:77)
Confidences == {50, 65, 70, 85, 100}
\* the low-confidence threshold 0.7 of line 191
LowConfidence == 70

RECURSIVE Sum(_)
Sum(xs) == IF xs = <<>> THEN 0 ELSE Head(xs) + Sum(Tail(xs))

Min(xs) == CHOOSE x \in {xs[i] : i \in 1..Len(xs)} : \A j \in 1..Len(xs) : x <= xs[j]
Max(xs) == CHOOSE x \in {xs[i] : i \in 1..Len(xs)} : \A j \in 1..Len(xs) : x >= xs[j]

\* the returned dictionary: a key it does not hold is None; the quotient
\* sum / len is kept as the pair of its terms
calculate_confidence_score(results) ==
    IF results = <<>>
    THEN [average_confidence |-> Some([num |-> 0, den |-> 1]),
          min_confidence |-> Some(0),
          max_confidence |-> Some(0),
          total_detections |-> Some(0),
          low_confidence_count |-> None]
    ELSE LET confidences == [i \in 1..Len(results) |-> results[i].confidence]
         IN [average_confidence |-> Some([num |-> Sum(confidences), den |-> Len(confidences)]),
             min_confidence |-> Some(Min(confidences)),
             max_confidence |-> Some(Max(confidences)),
             total_detections |-> Some(Len(results)),
             low_confidence_count |->
                 Some(Cardinality({i \in 1..Len(confidences) : confidences[i] < LowConfidence}))]

\* a call calculate_confidence_score(detailed_results)
CallConfidenceScore ==
    /\ confidence_score = None
    /\ confidence_score' = Some(calculate_confidence_score(detailed_results))
    /\ UNCHANGED <<parserVars, callVars, normVars, dateVars, runVars, threadVars,
                   fieldVars, detailed_results, evalVars, output_files>>

InitScore ==
    /\ InitParserFields
    /\ InitThreadsIdle
    /\ InitRunIdle
    /\ InitCallsIdle
    /\ InitNormIdle
    /\ InitDateIdle
    /\ out_fields = None
    /\ stage_calls = <<>>
    /\ out_tables = None
    /\ field_writes = <<>>
    /\ output_files = {}
    /\ out_part_b = None
    /\ detailed_results \in {[i \in 1..Len(cs) |-> [confidence |-> cs[i]]] :
                               cs \in SeqsUpTo(Confidences, MaxDetections)}
    /\ confidence_score = None
    /\ reference = None
    /\ hypothesis = None
    /\ cer = None
    /\ pred_json = None
    /\ truth_json = None
    /\ report = None

NextScore == CallConfidenceScore

SpecScore == InitScore /\ [][NextScore]_vars

\* C14: calculate_confidence_score on an empty token set returns metrics in
\* which average, min and max confidence, the detection count and the count
\* below the low-confidence threshold are all present and equal to zero.
C14_EmptyMetricsAllZero ==
    (detailed_results = <<>> /\ confidence_score # None) =>
        LET m == confidence_score[1]
        IN /\ m.average_confidence # None /\ m.average_confidence[1].num = 0
           /\ m.min_confidence = Some(0)
           /\ m.max_confidence = Some(0)
           /\ m.total_detections = Some(0)
           /\ m.low_confidence_count = Some(0)

-----------------------------------------------------------------------------
(* measure_accuracy.py: values loaded from JSON *)

\* a JSON value: null, a string (a sequence of characters), a boolean, a
\* number, a map (its items in insertion order, each <<key, value>> with the
\* key a sequence of characters) or a list
JNull == [t |-> "null", s |-> <<>>, b |-> FALSE, n |-> 0, items |-> <<>>]
JStr(chars) == [t |-> "str", s |-> chars, b |-> FALSE, n |-> 0, items |-> <<>>]
JBool(v) == [t |-> "bool", s |-> <<>>, b |-> v, n |-> 0, items |-> <<>>]
JNum(v) == [t |-> "num", s |-> <<>>, b |-> FALSE, n |-> v, items |-> <<>>]
JDict(kvs) == [t |-> "dict", s |-> <<>>, b |-> FALSE, n |-> 0, items |-> kvs]
JList(vs) == [t |-> "list", s |-> <<>>, b |-> FALSE, n |-> 0, items |-> vs]

\* str.lower() on one character
Lower(c) == IF c = "A" THEN "a" ELSE IF c = "B" THEN "b" ELSE c

\* str(n) for a small non-negative integer
StrOfNum(n) == <<DigitOf(n)>>

\* normalize_text
normalize_text(text) ==
    IF text.t = "null" THEN <<>>
    ELSE IF text.t = "bool"
    THEN (IF text.b THEN <<"t", "r", "u", "e">> ELSE <<"f", "a", "l", "s", "e">>)
    ELSE LET str == IF text.t = "num" THEN StrOfNum(text.n) ELSE text.s
             lowered == [i \in 1..Len(str) |-> Lower(str[i])]
             stripped == Strip(lowered)
         IN [i \in 1..Len(stripped) |-> IF stripped[i] = "\n" THEN " " ELSE stripped[i]]

\* length of the longest common prefix of a[i..ahi] and b[j..bhi]
RECURSIVE CommonPrefix(_, _, _, _, _, _)
CommonPrefix(a, i, ahi, b, j, bhi) ==
    IF i <= ahi /\ j <= bhi /\ a[i] = b[j]
    THEN 1 + CommonPrefix(a, i + 1, ahi, b, j + 1, bhi)
    ELSE 0

\* SequenceMatcher.find_longest_match without junk: the longest block, of
\* those the one starting earliest in a, of those the one earliest in b
find_longest_match(a, alo, ahi, b, blo, bhi) ==
    LET blocks == {[i |-> i, j |-> j, k |-> CommonPrefix(a, i, ahi, b, j, bhi)] :
                      i \in alo..ahi, j \in blo..bhi}
        better(x, y) == \/ x.k > y.k
                        \/ x.k = y.k /\ x.i < y.i
                        \/ x.k = y.k /\ x.i = y.i /\ x.j <= y.j
    IN IF blocks = {} THEN [i |-> alo, j |-> blo, k |-> 0]
       ELSE CHOOSE x \in blocks : \A y \in blocks : better(x, y)

\* total size of SequenceMatcher.get_matching_blocks on a[alo..ahi], b[blo..bhi]
RECURSIVE MatchingSize(_, _, _, _, _, _)
MatchingSize(a, alo, ahi, b, blo, bhi) ==
    IF alo > ahi \/ blo > bhi THEN 0
    ELSE LET m == find_longest_match(a, alo, ahi, b, blo, bhi)
         IN IF m.k = 0 THEN 0
            ELSE m.k + MatchingSize(a, alo, m.i - 1, b, blo, m.j - 1)
                     + MatchingSize(a, m.i + m.k, ahi, b, m.j + m.k, bhi)

\* a plausible slip: the similarity ratio itself is returned as the distance
CerAsRatio(ref_leaf, hyp_leaf) ==
    LET ref == normalize_text(ref_leaf)
        hyp == normalize_text(hyp_leaf)
        T == Len(ref) + Len(hyp)
    IN IF ref = <<>> /\ hyp = <<>> THEN [num |-> 0, den |-> 1]
       ELSE IF ref = <<>> THEN [num |-> 1, den |-> 1]
       ELSE [num |-> 2 * MatchingSize(ref, 1, Len(ref), hyp, 1, Len(hyp)), den |-> T]

\* calculate_cer: the value 1 - 2*M/T is kept as the fraction (T - 2*M)/T
calculate_cer(ref_leaf, hyp_leaf) ==
    LET ref == normalize_text(ref_leaf)
        hyp == normalize_text(hyp_leaf)
        T == Len(ref) + Len(hyp)
    IN IF ref = <<>> /\ hyp = <<>> THEN [num |-> 0, den |-> 1]
       ELSE IF ref = <<>> THEN [num |-> 1, den |-> 1]
       ELSE [num |-> T - 2 * MatchingSize(ref, 1, Len(ref), hyp, 1, Len(hyp)), den |-> T]

\* leaves handed to calculate_cer
LeafChars == {"a", "A", "b", " ", "\n"}
Leaves == {JNull, JBool(TRUE), JBool(FALSE), JNum(0), JNum(1)}
          \cup {JStr(str) : str \in SeqsUpTo(LeafChars, MaxLeafLen)}

\* a call calculate_cer(reference, hypothesis)
CallCalculateCer ==
    /\ cer = None
    /\ cer' = Some(calculate_cer(reference[1], hypothesis[1]))
    /\ UNCHANGED <<parserVars, callVars, normVars, dateVars, runVars, threadVars,
                   fieldVars, scoreVars, reference, hypothesis, pred_json, truth_json, report,
                   output_files>>

InitCer ==
    /\ InitParserFields
    /\ InitThreadsIdle
    /\ InitRunIdle
    /\ InitCallsIdle
    /\ InitNormIdle
    /\ InitDateIdle
    /\ out_fields = None
    /\ stage_calls = <<>>
    /\ out_tables = None
    /\ field_writes = <<>>
    /\ output_files = {}
    /\ out_part_b = None
    /\ detailed_results = <<>>
    /\ confidence_score = None
    /\ reference \in {Some(l) : l \in Leaves}
    /\ hypothesis \in {Some(l) : l \in Leaves}
    /\ cer = None
    /\ pred_json = None
    /\ truth_json = None
    /\ report = None

NextCer == CallCalculateCer

SpecCer == InitCer /\ [][NextCer]_vars

\* a leaf that is empty after normalization: null, or a string of whitespace
BlankLeaf(l) ==
    l.t = "null" \/ (l.t = "str" /\ \A i \in 1..Len(l.s) : l.s[i] \in Whitespace)

\* C15: calculate_cer returns a value in [0,1] for every pair of leaves
\* (null, boolean and numeric ones included), 0.0 when reference and
\* hypothesis are both empty after normalization, and 1.0 when the reference
\* is non-empty and the hypothesis is empty or absent.
C15_CerInUnitInterval ==
    cer # None =>
        /\ cer[1].den > 0
        /\ 0 <= cer[1].num /\ cer[1].num <= cer[1].den
        /\ (BlankLeaf(reference[1]) /\ BlankLeaf(hypothesis[1])) => cer[1].num = 0
        /\ (~BlankLeaf(reference[1]) /\ BlankLeaf(hypothesis[1])) => cer[1].num = cer[1].den

\* the rate of a non-empty reference against an absent hypothesis was computed
C15_Witness ==
    /\ cer # None
    /\ reference = Some(JStr(<<"a", "b">>))
    /\ hypothesis = Some(JNull)
    /\ cer[1].num = cer[1].den

-----------------------------------------------------------------------------
(* measure_accuracy.py: flatten_json, evaluate_page, main *)

\* d[key] = value on a dict kept as its items in insertion order
RECURSIVE DictSet(_, _, _)
DictSet(kvs, key, value) ==
    IF kvs = <<>> THEN << <<key, value>> >>
    ELSE IF Head(kvs)[1] = key THEN << <<key, value>> >> \o Tail(kvs)
    ELSE << Head(kvs) >> \o DictSet(Tail(kvs), key, value)

\* {**a, **b}
RECURSIVE DictUpdate(_, _)
DictUpdate(kvs, more) ==
    IF more = <<>> THEN kvs
    ELSE DictUpdate(DictSet(kvs, Head(more)[1], Head(more)[2]), Tail(more))

\* d.get(key): None (JSON null) when the key is missing
DictGet(kvs, key) ==
    IF \E i \in 1..Len(kvs) : kvs[i][1] = key
    THEN kvs[CHOOSE i \in 1..Len(kvs) : kvs[i][1] = key][2]
    ELSE JNull

\* name[:-1]
DropLast(name) == IF name = <<>> THEN <<>> ELSE SubSeq(name, 1, Len(name) - 1)

\* the inner function flatten(x, name) of flatten_json, writing into out; the
\* items of a dict or list are visited from position i on
RECURSIVE flatten(_, _, _)
RECURSIVE FlattenFrom(_, _, _, _)
flatten(x, name, out) ==
    IF x.t \in {"dict", "list"} THEN FlattenFrom(x, 1, name, out)
    ELSE DictSet(out, DropLast(name), x)
FlattenFrom(x, i, name, out) ==
    IF i > Len(x.items) THEN out
    ELSE IF x.t = "dict"
    THEN FlattenFrom(x, i + 1, name,
                     flatten(x.items[i][2], name \o x.items[i][1] \o <<"_">>, out))
    ELSE FlattenFrom(x, i + 1, name,
                     flatten(x.items[i], name \o <<DigitOf(i - 1)>> \o <<"_">>, out))

flatten_json(y) == flatten(y, <<>>, <<>>)

\* a page of a loaded document: its number and its field maps, None for a
\* key the page does not hold; {} is the page without any key
NoPage == [page |-> 0, form_fields |-> None, signatures |-> None, part_b |-> None,
           tables |-> None, third_party_payment_form |-> None]

\* page.get(key, {}) as the items of the map
MapItems(map_opt) == IF map_opt = None THEN <<>> ELSE map_opt[1].items

\* the merge of evaluate_page, lines 60-61
MergedFields(page) ==
    DictUpdate(DictUpdate(DictUpdate(MapItems(page.form_fields), MapItems(page.signatures)),
                          MapItems(page.part_b)),
               MapItems(page.third_party_payment_form))

\* the merge of the mismatch pass, lines 157-158
MergedFieldsWithTables(page) ==
    DictUpdate(DictUpdate(DictUpdate(DictUpdate(MapItems(page.form_fields),
                                                MapItems(page.signatures)),
                                     MapItems(page.part_b)),
                          MapItems(page.tables)),
               MapItems(page.third_party_payment_form))

\* Python == on two leaves: True == 1 and False == 0
NumberOf(l) == IF l.t = "bool" THEN (IF l.b THEN 1 ELSE 0) ELSE l.n
PyEq(x, y) ==
    IF x.t \in {"bool", "num"} /\ y.t \in {"bool", "num"} THEN NumberOf(x) = NumberOf(y)
    ELSE x = y

\* a/b + c/d
AddFraction(x, y) == [num |-> x.num * y.den + y.num * x.den, den |-> x.den * y.den]

ZeroMetrics == [total_fields |-> 0, exact_matches |-> 0, norm_matches |-> 0,
                cer_sum |-> [num |-> 0, den |-> 1]]

\* a plausible slip: null truth leaves are counted as well
RECURSIVE EvaluateCountingNulls(_, _, _, _)
EvaluateCountingNulls(truth_flat, pred_flat, i, metrics) ==
    IF i > Len(truth_flat) THEN metrics
    ELSE LET truth_val == truth_flat[i][2]
             pred_val == DictGet(pred_flat, truth_flat[i][1])
         IN EvaluateCountingNulls(truth_flat, pred_flat, i + 1,
                [total_fields |-> metrics.total_fields + 1,
                 exact_matches |-> metrics.exact_matches
                                   + (IF PyEq(pred_val, truth_val) THEN 1 ELSE 0),
                 norm_matches |-> metrics.norm_matches
                                  + (IF normalize_text(truth_val) = normalize_text(pred_val)
                                     THEN 1 ELSE 0),
                 cer_sum |-> AddFraction(metrics.cer_sum, calculate_cer(truth_val, pred_val))])

\* the loop of evaluate_page, lines 67-88, from item i of truth_flat on
RECURSIVE EvaluateFrom(_, _, _, _)
EvaluateFrom(truth_flat, pred_flat, i, metrics) ==
    IF i > Len(truth_flat) THEN metrics
    ELSE LET truth_val == truth_flat[i][2]
             pred_val == DictGet(pred_flat, truth_flat[i][1])
         IN IF truth_val.t = "null"
            THEN EvaluateFrom(truth_flat, pred_flat, i + 1, metrics)
            ELSE EvaluateFrom(truth_flat, pred_flat, i + 1,
                   [total_fields |-> metrics.total_fields + 1,
                    exact_matches |-> metrics.exact_matches
                                      + (IF PyEq(pred_val, truth_val) THEN 1 ELSE 0),
                    norm_matches |-> metrics.norm_matches
                                     + (IF normalize_text(truth_val) = normalize_text(pred_val)
                                        THEN 1 ELSE 0),
                    cer_sum |-> AddFraction(metrics.cer_sum,
                                            calculate_cer(truth_val, pred_val))])

\* evaluate_page
evaluate_page(page_num, pred_page, truth_page) ==
    EvaluateFrom(flatten_json(JDict(MergedFields(truth_page))),
                 flatten_json(JDict(MergedFields(pred_page))), 1, ZeroMetrics)

\* next((p for p in pred_json['pages'] if p['page'] == page_num), {})
PredPageFor(pred, page_num) ==
    IF \E i \in 1..Len(pred.pages) : pred.pages[i].page = page_num
    THEN pred.pages[CHOOSE i \in 1..Len(pred.pages) :
                        /\ pred.pages[i].page = page_num
                        /\ \A j \in 1..(i - 1) : pred.pages[j].page # page_num]
    ELSE NoPage

\* the rows main logs for the truth pages, lines 123-139: page and counters
PageRows(pred, truth) ==
    [i \in 1..Len(truth.pages) |->
        [page |-> truth.pages[i].page,
         metrics |-> evaluate_page(truth.pages[i].page,
                                   PredPageFor(pred, truth.pages[i].page),
                                   truth.pages[i])]]

\* total_metrics, lines 120 and 132-133
RECURSIVE TotalMetrics(_)
TotalMetrics(rows) ==
    IF rows = <<>> THEN ZeroMetrics
    ELSE LET rest == TotalMetrics(SubSeq(rows, 1, Len(rows) - 1))
             last == rows[Len(rows)].metrics
         IN [total_fields |-> rest.total_fields + last.total_fields,
             exact_matches |-> rest.exact_matches + last.exact_matches,
             norm_matches |-> rest.norm_matches + last.norm_matches,
             cer_sum |-> AddFraction(rest.cer_sum, last.cer_sum)]

\* the mismatch lines of one truth page, lines 163-170
RECURSIVE MismatchesFrom(_, _, _, _)
MismatchesFrom(page_num, truth_flat, pred_flat, i) ==
    IF i > Len(truth_flat) THEN <<>>
    ELSE LET truth_val == truth_flat[i][2]
             pred_val == DictGet(pred_flat, truth_flat[i][1])
             rest == MismatchesFrom(page_num, truth_flat, pred_flat, i + 1)
         IN IF truth_val.t # "null" /\ normalize_text(truth_val) # normalize_text(pred_val)
            THEN << [page |-> page_num, key |-> truth_flat[i][1],
                     expected |-> truth_val, got |-> pred_val] >> \o rest
            ELSE rest

\* the mismatch pass of main, lines 153-170
RECURSIVE MismatchLines(_, _, _)
MismatchLines(pred, truth, i) ==
    IF i > Len(truth.pages) THEN <<>>
    ELSE LET page_num == truth.pages[i].page
             pred_page == PredPageFor(pred, page_num)
         IN MismatchesFrom(page_num,
                           flatten_json(JDict(MergedFieldsWithTables(truth.pages[i]))),
                           flatten_json(JDict(MergedFieldsWithTables(pred_page))), 1)
            \o MismatchLines(pred, truth, i + 1)

\* main: what it writes to final_accuracy.txt, without the layout of the
\* lines (the percentages are the counters divided by total_fields)
main(pred, truth) ==
    LET rows == PageRows(pred, truth)
    IN [rows |-> rows, total |-> TotalMetrics(rows),
        mismatches |-> MismatchLines(pred, truth, 1)]

\* a run of measure_accuracy.py on the two loaded documents
CallMain ==
    /\ report = None
    /\ report' = Some(main(pred_json[1], truth_json[1]))
    /\ UNCHANGED <<parserVars, callVars, normVars, dateVars, runVars, threadVars,
                   fieldVars, scoreVars, reference, hypothesis, cer, pred_json, truth_json,
                   output_files>>

\* documents handed to main: the leaves are those of persisted
\* StructuredDocuments (strings, booleans, null)
EvalKeys == << <<"a">>, <<"b">>, <<"c">> >>
Spaced == <<"A", " ", " ", "b">>
TruthLeaves == {JNull, JStr(Spaced), JStr(<<>>), JBool(TRUE)}
PredLeaves == {JStr(Spaced), JStr(<<"a", " ", " ", "b">>), JStr(<<"A", " ", "b">>), JBool(TRUE)}

\* a map giving every key of EvalKeys a truth leaf
TruthMaps == {JDict([i \in 1..Len(EvalKeys) |-> <<EvalKeys[i], f[i]>>]) :
                 f \in [1..Len(EvalKeys) -> TruthLeaves]}

\* the items of a map whose key i is missing when f[i] is None
RECURSIVE PresentItems(_, _)
PresentItems(f, i) ==
    IF i > Len(EvalKeys) THEN <<>>
    ELSE (IF f[i] = None THEN <<>> ELSE << <<EvalKeys[i], f[i][1]>> >>) \o PresentItems(f, i + 1)

PredMaps == {JDict(PresentItems(f, 1)) :
                f \in [1..Len(EvalKeys) -> {None} \cup {Some(l) : l \in PredLeaves}]}

FirstPage(map) == [NoPage EXCEPT !.page = 1, !.form_fields = Some(map)]

\* a later page with signatures, checkboxes and one table row
FifthPage ==
    [NoPage EXCEPT
        !.page = 5,
        !.signatures = Some(JDict(<< << <<"n">>, JStr(Spaced) >>, << <<"t">>, JBool(TRUE) >> >>)),
        !.part_b = Some(JDict(<< << <<"o">>,
                                    JDict(<< << <<"x">>, JBool(TRUE) >>,
                                             << <<"y">>, JBool(FALSE) >> >>) >> >>)),
        !.tables = Some(JDict(<< << <<"i">>,
                                    JList(<< JDict(<< << <<"d">>, JStr(Spaced) >> >>) >>) >> >>))]

TruthDocs == {[pages |-> <<FirstPage(m)>> \o rest] : m \in TruthMaps, rest \in {<<>>, <<FifthPage>>}}
PredDocs == {[pages |-> first \o rest] :
                first \in {<<>>} \cup {<<FirstPage(m)>> : m \in PredMaps},
                rest \in {<<>>, <<FifthPage>>}}

InitEval ==
    /\ InitParserFields
    /\ InitThreadsIdle
    /\ InitRunIdle
    /\ InitCallsIdle
    /\ InitNormIdle
    /\ InitDateIdle
    /\ out_fields = None
    /\ stage_calls = <<>>
    /\ out_tables = None
    /\ field_writes = <<>>
    /\ output_files = {}
    /\ out_part_b = None
    /\ detailed_results = <<>>
    /\ confidence_score = None
    /\ reference = None
    /\ hypothesis = None
    /\ cer = None
    /\ pred_json \in {Some(doc) : doc \in PredDocs}
    /\ truth_json \in {Some(doc) : doc \in TruthDocs}
    /\ report = None

NextEval == CallMain

SpecEval == InitEval /\ [][NextEval]_vars

\* the flattened field maps of truth page i and of its prediction page
TruthFlat(i) == flatten_json(JDict(MergedFields(truth_json[1].pages[i])))
PredFlat(i) ==
    flatten_json(JDict(MergedFields(PredPageFor(pred_json[1], truth_json[1].pages[i].page))))
\* the positions of the non-null leaves of truth page i
NonNullLeaves(i) == {k \in 1..Len(TruthFlat(i)) : TruthFlat(i)[k][2] # JNull}
PredLeafFor(i, k) == DictGet(PredFlat(i), TruthFlat(i)[k][1])

NoPrediction(i) ==
    \A j \in 1..Len(pred_json[1].pages) :
        pred_json[1].pages[j].page # truth_json[1].pages[i].page

\* C17: a ground-truth page without a prediction page of the same number is
\* evaluated against an empty field map and every non-null truth field of it
\* is a miss: no exact match, no normalized match, and a line in the
\* mismatch listing for each such field.
C17_MissingPageAllMisses ==
    report # None =>
        \A i \in 1..Len(report[1].rows) :
            NoPrediction(i) =>
                /\ report[1].rows[i].metrics.exact_matches = 0
                /\ report[1].rows[i].metrics.norm_matches = 0
                /\ \A k \in NonNullLeaves(i) :
                       \E l \in 1..Len(report[1].mismatches) :
                           /\ report[1].mismatches[l].page = truth_json[1].pages[i].page
                           /\ report[1].mismatches[l].key = TruthFlat(i)[k][1]

\* runs of spaces collapsed to one space
RECURSIVE CollapseRuns(_)
CollapseRuns(t) ==
    IF Len(t) < 2 THEN t
    ELSE IF t[1] = " " /\ t[2] = " " THEN CollapseRuns(Tail(t))
    ELSE <<t[1]>> \o CollapseRuns(Tail(t))

\* C18: two leaves count as a normalized match exactly when they are the
\* same after case-folding, flattening newlines to spaces and collapsing
\* runs of whitespace.
C18_NormalizedMatchCollapses ==
    report # None =>
        \A i \in 1..Len(report[1].rows) :
            report[1].rows[i].metrics.norm_matches =
                Cardinality({k \in NonNullLeaves(i) :
                                CollapseRuns(normalize_text(PredLeafFor(i, k)))
                                    = CollapseRuns(normalize_text(TruthFlat(i)[k][2]))})

-----------------------------------------------------------------------------
(* FormParser: the section extractors *)

(* The text of a page is a sequence of atoms: a digit, one of the characters
   "/", "-", ":", " ", "\n", "X", or a phrase the patterns of the extractors
   match as a whole.  The labels "7A. Postal Code:", "9A. Primary Telephone:"
   and "10A. Secondary Telephone:" are their leading digits followed by the
   rest of the label as one atom.  An extracted value is the sequence of the
   atoms of the match.  A field map gives each key None or a value; a key the
   extractor never sets reads as None.  Of the keys of _parse_part_a,
   _parse_part_a_continued and _parse_supplement_c the maps below hold the
   dates, postal codes, telephones and the constant keys; every key is
   computed from the page text alone and cleaned by the same last statement. *)

LBL_POSTAL == "A. Postal Code:"
LBL_PHONE == "A. Primary Telephone:"
LBL_SECOND == "A. Secondary Telephone:"
STREET == "Sylvester Avenue"
PRINT_NAME == "Print Name"
LBL_POLICY == "Policy Number:"
LBL_COUNTRIES == "A. Countries Visited:"
WORLDTRIPS == "WorldTrips"
COUNTRY_PAIR == "England, Turkey"
LBL_SCHOOL == "Name of School:"
LBL_CITY == "City:"
SCHOOL_LONG == "Winchester High School"
SCHOOL_SHORT == "Art School"
SCHOOL_STREET == "Main Road"
CityWords == {"Boston", "Salem"}
\* atoms matched by [A-Z][a-z]+\s+[A-Z][a-z]+
TwoCapitalized == {"Ilyas Malik", "Domestic Claims", PRINT_NAME, STREET, "World Trips",
                   "Home Country", SCHOOL_SHORT, SCHOOL_STREET}
\* the other atoms that start with a capital letter, and those of them that
\* end with a letter
CapitalAtoms == {"A", "MA", LBL_POLICY, LBL_COUNTRIES, COUNTRY_PAIR, WORLDTRIPS, LBL_SCHOOL,
                 LBL_CITY, SCHOOL_LONG} \cup CityWords
LetterEnded == {"A", "MA", COUNTRY_PAIR, WORLDTRIPS, SCHOOL_LONG} \cup CityWords
Headers == {PART_A, PART_B, PART_C, PART_D, SUPPLEMENT_A, SUPPLEMENT_B, SUPPLEMENT_C,
            SUPPLEMENT_D, THIRD_PARTY}

IsDigit(a) == a \in Digits
\* the first character of the atom is a word character (\w)
StartsWithWord(a) ==
    a \in Digits \cup {"X", LBL_POSTAL, LBL_PHONE, LBL_SECOND} \cup TwoCapitalized \cup Headers
         \cup CapitalAtoms
\* the last character of the atom is a word character
EndsWithWord(a) == a \in Digits \cup {"X"} \cup TwoCapitalized \cup Headers \cup LetterEnded
\* the first character of the atom is in [A-Z]
StartsUpper(a) ==
    a \in {"X", LBL_POSTAL, LBL_PHONE, LBL_SECOND} \cup TwoCapitalized \cup Headers
         \cup CapitalAtoms

\* text[i..j] are all digits
DigitsAt(text, i, j) == j <= Len(text) /\ \A k \in i..j : IsDigit(text[k])

\* the end of the run of atoms of S that starts at i (i - 1 when there is none)
RECURSIVE RunEnd(_, _, _)
RunEnd(text, i, S) ==
    IF i <= Len(text) /\ text[i] \in S THEN RunEnd(text, i + 1, S) ELSE i - 1

\* pat occurs in s as a contiguous part: `pat in s`
HasSub(s, pat) ==
    \E i \in 1..(Len(s) - Len(pat) + 1) : SubSeq(s, i, i + Len(pat) - 1) = pat

\* the positions in S in increasing order
RECURSIVE Ascending(_)
Ascending(S) ==
    IF S = {} THEN <<>>
    ELSE LET least == CHOOSE x \in S : \A y \in S : x <= y
         IN <<least>> \o Ascending(S \ {least})

\* re.findall(r'\b(\d{5})\b', text)
ZipCandidates(text) ==
    LET starts == {i \in 1..Len(text) :
                      /\ DigitsAt(text, i, i + 4)
                      /\ (i = 1 \/ ~EndsWithWord(text[i - 1]))
                      /\ (i + 5 > Len(text) \/ ~StartsWithWord(text[i + 5]))}
        order == Ascending(starts)
    IN [k \in 1..Len(order) |-> SubSeq(text, order[k], order[k] + 4)]

\* FormParser._validate_zip
_validate_zip(zip_code) ==
    IF zip_code = None \/ zip_code = Some(<<>>) THEN None
    ELSE IF HasSub(zip_code[1], <<"4", "8", "3", "3", "3">>)
            \/ HasSub(zip_code[1], <<"2", "0", "0", "5">>) THEN None
    ELSE zip_code

\* the loop of lines 245-249 and 540-544: the first candidate that
\* _validate_zip accepts, None when the key is not set
RECURSIVE FirstValidZip(_)
FirstValidZip(candidates) ==
    IF candidates = <<>> THEN None
    ELSE IF _validate_zip(Some(Head(candidates))) # None THEN Some(Head(candidates))
    ELSE FirstValidZip(Tail(candidates))

\* the number of _validate_zip calls that loop makes
RECURSIVE ZipValidations(_)
ZipValidations(candidates) ==
    IF candidates = <<>> THEN 0
    ELSE IF _validate_zip(Some(Head(candidates))) # None THEN 1
    ELSE 1 + ZipValidations(Tail(candidates))

\* re.findall(r'(\d{2}/\d{2}/\d{4})', text) from position i on
RECURSIVE DobMatches(_, _)
DobMatches(text, i) ==
    IF i + 9 > Len(text) THEN <<>>
    ELSE IF /\ DigitsAt(text, i, i + 1) /\ text[i + 2] = "/"
            /\ DigitsAt(text, i + 3, i + 4) /\ text[i + 5] = "/"
            /\ DigitsAt(text, i + 6, i + 9)
    THEN <<SubSeq(text, i, i + 9)>> \o DobMatches(text, i + 10)
    ELSE DobMatches(text, i + 1)

\* FormParser._extract_dob_value: the last date; the labelled pattern of line
\* 335 contains the first one, so it matches only when that did
_extract_dob_value(text) ==
    LET matches == DobMatches(text, 1)
    IN IF matches # <<>> THEN Some(matches[Len(matches)]) ELSE None

\* re.findall(r'9A\.\s*Primary Telephone[:\s]*(\d{7,})', text); the caller
\* takes the first match
LabelledPhones(text) ==
    LET from(i) == RunEnd(text, i + 2, Whitespace \cup {":"}) + 1
        starts == {i \in 1..(Len(text) - 1) :
                      /\ text[i] = "9" /\ text[i + 1] = LBL_PHONE
                      /\ DigitsAt(text, from(i), from(i) + 6)}
        order == Ascending(starts)
    IN [k \in 1..Len(order) |->
           SubSeq(text, from(order[k]), RunEnd(text, from(order[k]), Digits))]

\* re.findall(r'(\d{9,15})(?=[A-Z])', text): of a run of at least 9 digits
\* before an upper-case letter, the last 15 at most
LoosePhones(text) ==
    LET ends == {e \in 1..(Len(text) - 1) :
                    /\ IsDigit(text[e]) /\ StartsUpper(text[e + 1])
                    /\ e >= 9 /\ DigitsAt(text, e - 8, e)}
        order == Ascending(ends)
        start(e) == CHOOSE b \in 1..e :
                        /\ DigitsAt(text, b, e) /\ e - b + 1 <= 15
                        /\ (b = 1 \/ ~IsDigit(text[b - 1]) \/ e - b + 1 = 15)
    IN [k \in 1..Len(order) |-> SubSeq(text, start(order[k]), order[k])]

\* the loop of lines 399-401: the last match that does not start with 245
RECURSIVE LastNotPolicy(_)
LastNotPolicy(matches) ==
    IF matches = <<>> THEN None
    ELSE LET m == matches[Len(matches)]
         IN IF SubSeq(m, 1, 3) # <<"2", "4", "5">> THEN Some(m)
            ELSE LastNotPolicy(SubSeq(matches, 1, Len(matches) - 1))

\* FormParser._extract_phone_value
_extract_phone_value(text) ==
    IF LabelledPhones(text) # <<>> THEN Some(LabelledPhones(text)[1])
    ELSE LastNotPolicy(LoosePhones(text))

\* len(re.sub(r'\D', '', phone))
DigitCount(s) == Cardinality({i \in 1..Len(s) : IsDigit(s[i])})

\* FormParser._validate_phone
_validate_phone(phone) ==
    IF phone = None \/ phone = Some(<<>>) THEN None
    ELSE IF DigitCount(phone[1]) < 7 THEN None
    ELSE phone

\* _extract_field(text, r'10A\.\s*Secondary Telephone:\s*([\d-]+)')
SecondaryTelephone(text) ==
    LET from(i) == RunEnd(text, i + 3, Whitespace) + 1
        starts == {i \in 1..(Len(text) - 2) :
                      /\ text[i] = "1" /\ text[i + 1] = "0" /\ text[i + 2] = LBL_SECOND
                      /\ from(i) <= Len(text) /\ text[from(i)] \in Digits \cup {"-"}}
    IN IF starts = {} THEN None
       ELSE LET first == CHOOSE i \in starts : \A j \in starts : i <= j
            IN Some(Strip(SubSeq(text, from(first),
                                 RunEnd(text, from(first), Digits \cup {"-"}))))

\* re.sub(r'\s+', ' ', value)
RECURSIVE CollapseWhitespace(_)
CollapseWhitespace(v) ==
    IF v = <<>> THEN <<>>
    ELSE IF Head(v) \in Whitespace
    THEN <<" ">> \o CollapseWhitespace(SubSeq(v, RunEnd(v, 1, Whitespace) + 1, Len(v)))
    ELSE <<Head(v)>> \o CollapseWhitespace(Tail(v))

\* FormParser._clean_value: the definition of line 1064, which replaces the
\* one of line 151 in the class body
_clean_value(value) ==
    IF value = None THEN None
    ELSE LET cleaned == CollapseWhitespace(Strip(value[1]))
         IN IF cleaned = <<>> THEN None ELSE Some(cleaned)

\* {k: self._clean_value(v) for k, v in fields.items()}
CleanAll(fields) == [k \in DOMAIN fields |-> _clean_value(fields[k])]

\* one application of a stage to the value of a key; a result assigned to
\* two keys counts for each
Stage(stage, key) == [stage |-> stage, key |-> key]

\* the field map with the given keys in insertion order
MapOf(keys, value(_)) == [k \in {keys[i] : i \in 1..Len(keys)} |-> value(k)]

\* the _clean_value calls of the last statement of an extractor
CleanStages(keys) == [i \in 1..Len(keys) |-> Stage("clean", keys[i])]

PartAKeys == <<"3a_date_of_birth_mm_dd_yy", "7a_postal_code", "9a_primary_telephone",
               "10a_secondary_telephone">>

\* FormParser._parse_part_a
_parse_part_a(text) ==
    LET fields(k) ==
            CASE k = "3a_date_of_birth_mm_dd_yy" -> _normalize_date(_extract_dob_value(text))
              [] k = "7a_postal_code" -> FirstValidZip(ZipCandidates(text))
              [] k = "9a_primary_telephone" -> _validate_phone(_extract_phone_value(text))
              [] k = "10a_secondary_telephone" -> SecondaryTelephone(text)
    IN CleanAll(MapOf(PartAKeys, fields))

\* the stages _parse_part_a applies, in the order of its statements
PartAStages(text) ==
    <<Stage("normalize", "3a_date_of_birth_mm_dd_yy")>>
    \o [i \in 1..ZipValidations(ZipCandidates(text)) |-> Stage("validate", "7a_postal_code")]
    \o <<Stage("validate", "9a_primary_telephone")>>
    \o CleanStages(PartAKeys)

PartAContinuedKeys == <<"16a_school_postal_code", "16a_school_country", "17a_employed",
                        "18a_other_insurance_coverage">>

\* FormParser._parse_part_a_continued
_parse_part_a_continued(text) ==
    LET fields(k) ==
            CASE k = "16a_school_postal_code" -> FirstValidZip(ZipCandidates(text))
              [] k = "16a_school_country" -> Some(<<"USA">>)
              [] k = "17a_employed" -> Some(<<"No">>)
              [] k = "18a_other_insurance_coverage" -> Some(<<"No">>)
    IN CleanAll(MapOf(PartAContinuedKeys, fields))

PartAContinuedStages(text) ==
    [i \in 1..ZipValidations(ZipCandidates(text)) |->
        Stage("validate", "16a_school_postal_code")]
    \o CleanStages(PartAContinuedKeys)

\* FormParser._extract_postal_value
_extract_postal_value(text) ==
    LET from(i) == RunEnd(text, i + 2, Whitespace \cup {":"}) + 1
        starts == {i \in 1..(Len(text) - 1) :
                      /\ text[i] = "7" /\ text[i + 1] = LBL_POSTAL
                      /\ DigitsAt(text, from(i), from(i) + 4)}
    IN IF starts = {} THEN None
       ELSE LET first == CHOOSE i \in starts : \A j \in starts : i <= j
            IN Some(SubSeq(text, from(first), from(first) + 4))

\* re.search(r'(?:Winchester)?(\d+\s+[A-Z][a-z]+\s+(?:Avenue|Ave|Street|St))', text)
AddressMatch(text) ==
    LET street(i) == RunEnd(text, RunEnd(text, i, Digits) + 1, Whitespace) + 1
        starts == {i \in 1..Len(text) :
                      /\ IsDigit(text[i])
                      /\ RunEnd(text, RunEnd(text, i, Digits) + 1, Whitespace)
                            > RunEnd(text, i, Digits)
                      /\ street(i) <= Len(text) /\ text[street(i)] = STREET}
    IN IF starts = {} THEN None
       ELSE LET first == CHOOSE i \in starts : \A j \in starts : i <= j
            IN Some(SubSeq(text, first, street(first)))

\* re.search(r'(\d{1,2}/\d{1,2}/\d{4})', text)
FirstDate(text) ==
    LET part(i) == IF DigitsAt(text, i, i + 1) /\ i + 2 <= Len(text) /\ text[i + 2] = "/" THEN 2
                   ELSE IF DigitsAt(text, i, i) /\ i + 1 <= Len(text) /\ text[i + 1] = "/" THEN 1
                   ELSE 0
        day(i) == i + part(i) + 1
        year(i) == day(i) + part(day(i)) + 1
        starts == {i \in 1..Len(text) :
                      /\ part(i) > 0 /\ part(day(i)) > 0
                      /\ DigitsAt(text, year(i), year(i) + 3)}
    IN IF starts = {} THEN None
       ELSE LET first == CHOOSE i \in starts : \A j \in starts : i <= j
            IN Some(SubSeq(text, first, year(first) + 3))

SupplementCKeys == <<"beneficiary_address", "beneficiary_postal_code", "beneficiary_country",
                     "payment_type", "insured_signature_date_mm_dd_yy">>

\* FormParser._parse_supplement_c; no atom holds 'Wire', so payment_type
\* keeps its default
_parse_supplement_c(text) ==
    LET addr_match == AddressMatch(text)
        fields(k) ==
            CASE k = "beneficiary_address" -> addr_match
              [] k = "beneficiary_postal_code" ->
                    IF addr_match = None THEN None
                    ELSE IF _extract_postal_value(text) # None THEN _extract_postal_value(text)
                    ELSE Some(<<"0", "1", "8", "9", "0">>)
              [] k = "beneficiary_country" ->
                    IF addr_match = None THEN None ELSE Some(<<"USA">>)
              [] k = "payment_type" -> Some(<<"Check">>)
              [] k = "insured_signature_date_mm_dd_yy" ->
                    IF Contains(text, THIRD_PARTY) /\ FirstDate(text) # None
                    THEN _normalize_date(FirstDate(text)) ELSE None
    IN CleanAll(MapOf(SupplementCKeys, fields))

SupplementCStages(text) ==
    (IF Contains(text, THIRD_PARTY) /\ FirstDate(text) # None
     THEN <<Stage("normalize", "insured_signature_date_mm_dd_yy")>> ELSE <<>>)
    \o CleanStages(SupplementCKeys)

\* re.search(r'(\d{4})([A-Z][a-z]+\s+[A-Z][a-z]+)', text), group 2
NameAfterYear(text) ==
    LET starts == {i \in 1..(Len(text) - 4) :
                      DigitsAt(text, i, i + 3) /\ text[i + 4] \in TwoCapitalized}
    IN IF starts = {} THEN None
       ELSE LET first == CHOOSE i \in starts : \A j \in starts : i <= j
            IN Some(<<text[first + 4]>>)

\* re.search(r'Print Name.*?\n([A-Z][a-z]+\s+[A-Z][a-z]+)', text), group 1:
\* '.' stops at the first line end after the label
NameAfterPrintName(text) ==
    LET line_end(i) == RunEnd(text, i + 1, {text[k] : k \in 1..Len(text)} \ {"\n"}) + 1
        starts == {i \in 1..Len(text) :
                      /\ text[i] = PRINT_NAME
                      /\ line_end(i) + 1 <= Len(text)
                      /\ text[line_end(i) + 1] \in TwoCapitalized}
    IN IF starts = {} THEN None
       ELSE LET first == CHOOSE i \in starts : \A j \in starts : i <= j
            IN Some(<<text[line_end(first) + 1]>>)

\* 'Domestic' in name
HasDomestic(name) == name = <<"Domestic Claims">>

PartDKeys == <<"claimant_signature_date_mm_dd_yy", "insured_signature_date_mm_dd_yy",
               "printed_name">>

\* FormParser._parse_part_d; no atom holds 'Farmington'
_parse_part_d(text) ==
    LET norm_date == IF FirstDate(text) # None THEN _normalize_date(FirstDate(text)) ELSE None
        name_match == NameAfterYear(text)
        by_year == IF name_match # None /\ ~HasDomestic(name_match[1]) THEN name_match ELSE None
        m == NameAfterPrintName(text)
        by_label == IF by_year # None THEN by_year
                    ELSE IF m # None /\ ~HasDomestic(m[1]) THEN m
                    ELSE None
        signatures(k) ==
            CASE k = "claimant_signature_date_mm_dd_yy" -> norm_date
              [] k = "insured_signature_date_mm_dd_yy" -> norm_date
              [] k = "printed_name" -> IF by_label # None THEN by_label ELSE Some(<<>>)
    IN MapOf(PartDKeys, signatures)

PartDStages(text) ==
    IF FirstDate(text) # None
    THEN <<Stage("normalize", "claimant_signature_date_mm_dd_yy"),
           Stage("normalize", "insured_signature_date_mm_dd_yy")>>
    ELSE <<>>

ThirdPartyKeys == <<"name", "address", "city", "state", "postal_code", "country">>

\* FormParser._parse_third_party
_parse_third_party(text) ==
    LET third_party(k) == None
    IN CleanAll(MapOf(ThirdPartyKeys, third_party))

ThirdPartyStages(text) == CleanStages(ThirdPartyKeys)

-----------------------------------------------------------------------------
(* FormParser._parse_part_b *)

(* A PART B page is a sequence of the checkbox labels, the mark glyphs "X",
   "x" and the check mark (the atom "CHECK"), the word "incident", ":",
   whitespace and phrases.  No atom but a label holds the text of a label and
   no atom but a mark glyph begins with one. *)

CHECK == "CHECK"
MarkGlyphs == {"X", "x", CHECK}
TRAVEL_DELAY == "Travel Delay"
LOST_LUGGAGE == "Lost Checked Luggage"
TRIP_INTERRUPTION == "Trip Interruption"
COVID == "Covid-19"
LBL_OTHER == "Other"
INCIDENT == "incident"
DOCUSIGN == "DocuSign"
NOT_AVAILABLE == "N/A"

\* FormParser._is_checked: re.search(pattern + r'\s*[Xx<check>]', text)
_is_checked(text, pattern) ==
    \E i \in 1..Len(text) :
        /\ text[i] = pattern
        /\ RunEnd(text, i + 1, Whitespace) + 1 <= Len(text)
        /\ text[RunEnd(text, i + 1, Whitespace) + 1] \in MarkGlyphs

\* the end of the line that position i is on
LineEnd(text, i) == RunEnd(text, i, {text[k] : k \in 1..Len(text)} \ {"\n"})

\* _extract_field(text, r'incident[:\s]*([^\n]+)'): the rest of the line
\* after the label, ':' and whitespace; when nothing follows them, the match
\* gives back the last ':' or blank it can
IncidentDetails(text) ==
    LET after(i) == RunEnd(text, i + 1, Whitespace \cup {":"}) + 1
        given_back(i) == {b \in (i + 1)..(after(i) - 1) : text[b] # "\n"}
        from(i) == IF after(i) <= Len(text) THEN after(i)
                   ELSE CHOOSE b \in given_back(i) : \A c \in given_back(i) : c <= b
        starts == {i \in 1..Len(text) :
                      /\ text[i] = INCIDENT
                      /\ (after(i) <= Len(text) \/ given_back(i) # {})}
    IN IF starts = {} THEN None
       ELSE LET first == CHOOSE i \in starts : \A j \in starts : i <= j
            IN Some(Strip(SubSeq(text, from(first), LineEnd(text, from(first)))))

ApplyingForKeys == {"travel_delay", "lost_checked_luggage", "trip_interruption",
                    "emergency_quarantine_indemnity_benefit_covid_19", "other"}
\* the label the code tests for each key of 1b_applying_for
LabelOf(k) ==
    CASE k = "travel_delay" -> TRAVEL_DELAY
      [] k = "lost_checked_luggage" -> LOST_LUGGAGE
      [] k = "trip_interruption" -> TRIP_INTERRUPTION
      [] k = "emergency_quarantine_indemnity_benefit_covid_19" -> COVID
      [] k = "other" -> LBL_OTHER

\* FormParser._parse_part_b
_parse_part_b(text) ==
    LET found == IncidentDetails(text)
        kept == IF found # None /\ found[1] # <<>> /\ Contains(found[1], DOCUSIGN)
                THEN None ELSE found
    IN "1b_applying_for" :>
            [k \in ApplyingForKeys |->
                IF k = "other" THEN Contains(text, LBL_OTHER)
                ELSE Contains(text, LabelOf(k)) /\ _is_checked(text, LabelOf(k))]
       @@ "2b_incident_details" :>
            (IF kept = None \/ kept[1] = <<>> THEN Some(<<NOT_AVAILABLE>>) ELSE kept)

-----------------------------------------------------------------------------
(* SUPPLEMENT A: the itemization table *)

\* the first index of S, or 0
FirstOf(S) == IF S = {} THEN 0 ELSE CHOOSE i \in S : \A j \in S : i <= j

HOSPITAL == "Hospital"
\* atoms made of letters only ([A-Z]+ under re.IGNORECASE); the header holds
\* one blank between two such words
LetterAtoms == {"ACIBADEM", "MEMORIAL", HOSPITAL, "virus", "Examination", "Medication",
                "Turkey", "TL", SUPPLEMENT_A}

\* re.finditer(r'(\d{2}/\d{2}/\d{2,4})', text) from position `from` on
RECURSIVE DateTokens(_, _)
DateTokens(text, from) ==
    LET starts == {i \in from..Len(text) :
                      /\ DigitsAt(text, i, i + 1) /\ i + 7 <= Len(text)
                      /\ text[i + 2] = "/" /\ DigitsAt(text, i + 3, i + 4)
                      /\ text[i + 5] = "/" /\ DigitsAt(text, i + 6, i + 7)}
        i == FirstOf(starts)
        run == RunEnd(text, i + 6, Digits)
        end == IF run > i + 9 THEN i + 9 ELSE run
    IN IF starts = {} THEN <<>>
       ELSE <<SubSeq(text, i, end)>> \o DateTokens(text, end + 1)

\* re.findall(r'(\d+\.\d+)', text) from position `from` on
RECURSIVE AmountTokens(_, _)
AmountTokens(text, from) ==
    LET dot(i) == RunEnd(text, i, Digits) + 1
        starts == {i \in from..Len(text) :
                      /\ IsDigit(text[i])
                      /\ dot(i) < Len(text) /\ text[dot(i)] = "."
                      /\ IsDigit(text[dot(i) + 1])}
        i == FirstOf(starts)
        end == RunEnd(text, dot(i) + 1, Digits)
    IN IF starts = {} THEN <<>>
       ELSE <<SubSeq(text, i, end)>> \o AmountTokens(text, end + 1)

\* text[a..b] is a match of [A-Z]+(?:\s+[A-Z]+)*\s+Hospital: words and
\* whitespace only, a word first, whitespace before the closing Hospital
IsProvider(text, a, b) ==
    /\ text[a] \in LetterAtoms
    /\ text[b] = HOSPITAL /\ text[b - 1] \in Whitespace
    /\ \A k \in a..b : text[k] \in LetterAtoms \cup Whitespace

\* re.findall of that pattern from position `from` on: the leftmost start,
\* and for it the longest match
RECURSIVE RawProviders(_, _)
RawProviders(text, from) ==
    LET Ends(a) == {b \in (a + 2)..Len(text) : IsProvider(text, a, b)}
        starts == {a \in from..Len(text) : Ends(a) # {}}
        a == FirstOf(starts)
        b == CHOOSE e \in Ends(a) : \A f \in Ends(a) : f <= e
    IN IF starts = {} THEN <<>>
       ELSE <<SubSeq(text, a, b)>> \o RawProviders(text, b + 1)

\* lines 731-738: whitespace collapsed, and a name that holds "Hospital"
\* more than once cut back to what stands before the first one
CleanProvider(p) ==
    LET clean_p == Strip(CollapseWhitespace(p))
        first == FirstOf({i \in 1..Len(clean_p) : clean_p[i] = HOSPITAL})
    IN IF Cardinality({i \in 1..Len(clean_p) : clean_p[i] = HOSPITAL}) > 1
       THEN Strip(SubSeq(clean_p, 1, first - 1)) \o <<" ", HOSPITAL>>
       ELSE clean_p

\* lines 740-742: the names in the order of the text, each once
RECURSIVE Unique(_)
Unique(ps) ==
    IF ps = <<>> THEN <<>>
    ELSE LET rest == Unique(SubSeq(ps, 1, Len(ps) - 1))
         IN IF \E i \in 1..Len(rest) : rest[i] = ps[Len(ps)] THEN rest
            ELSE Append(rest, ps[Len(ps)])

Providers(text) ==
    LET raw == RawProviders(text, 1)
    IN Unique([i \in 1..Len(raw) |-> CleanProvider(raw[i])])

\* lines 764-767: the i-th amount (from 0) counted from the end of the list
AmountOf(amounts, dates, i) ==
    IF Len(amounts) >= Len(dates) THEN Some(amounts[Len(amounts) - i]) ELSE None

\* form_parser.py:744-780, the item built for the i-th date (from 0)
Item(text, dates, amounts, providers, i) ==
    [date_of_service_mm_dd_yy |-> _normalize_date(Some(dates[i + 1])),
     provider |-> IF Len(providers) > i THEN Some(providers[i + 1])
                  ELSE IF providers # <<>> THEN Some(providers[1]) ELSE None,
     amount_charged |-> AmountOf(amounts, dates, i),
     diagnosis |-> IF Contains(text, "virus") THEN Some(<<"virus">>) ELSE None,
     description_of_services |->
         IF Contains(text, "Examination") /\ i = 0 THEN Some(<<"Examination and tests">>)
         ELSE IF Contains(text, "Medication") /\ i = 1 THEN Some(<<"Medication">>)
         ELSE Some(<<"Medical Service">>),
     country |-> IF Contains(text, "Turkey") THEN Some(<<"Turkey">>) ELSE None,
     currency |-> IF Contains(text, "TL") THEN Some(<<"TL (Turkish Lira)">>) ELSE None]

\* FormParser._parse_supplement_a; a text without a date leaves the list
\* empty, the line-by-line pass of lines 786-825 too
_parse_supplement_a(text) ==
    LET dates == DateTokens(text, 1)
        amounts == AmountTokens(text, 1)
        providers == Providers(text)
    IN [supplement_a_items |->
            [i \in 1..Len(dates) |-> Item(text, dates, amounts, providers, i - 1)]]

\* the tables map of a page returned by _parse_page
PageTables(page) ==
    IF page.tables # None /\ page.tables[1].extractor = "_parse_supplement_a"
    THEN Some(_parse_supplement_a(page.tables[1].text))
    ELSE None

-----------------------------------------------------------------------------
(* Chains of strategies: the fields an extractor assigns more than once *)

\* atoms that are one match of [A-Z][a-z]+\s+[A-Z][a-z]+ from end to end
PairAtoms == TwoCapitalized

\* the leftmost match of [A-Z][a-z]+\s+[A-Z][a-z]+ inside the atom
PairIn(a) ==
    CASE a \in PairAtoms -> Some(a)
      [] a = LBL_POLICY -> Some("Policy Number")
      [] a = LBL_COUNTRIES -> Some("Countries Visited")
      [] a = LBL_POSTAL -> Some("Postal Code")
      [] a = LBL_PHONE -> Some("Primary Telephone")
      [] a = LBL_SECOND -> Some("Secondary Telephone")
      [] a = SCHOOL_LONG -> Some("Winchester High")
      [] OTHER -> None

\* the match of [A-Z][a-z]+ that begins the atom
StartWord(a) ==
    CASE a \in CityWords -> Some(a)
      [] a = "Ilyas Malik" -> Some("Ilyas")
      [] a = "Domestic Claims" -> Some("Domestic")
      [] a = PRINT_NAME -> Some("Print")
      [] a = STREET -> Some("Sylvester")
      [] a \in {"World Trips", WORLDTRIPS} -> Some("World")
      [] a = "Home Country" -> Some("Home")
      [] a = LBL_POLICY -> Some("Policy")
      [] a = COUNTRY_PAIR -> Some("England")
      [] a = LBL_SCHOOL -> Some("Name")
      [] a = LBL_CITY -> Some("City")
      [] a = SCHOOL_LONG -> Some("Winchester")
      [] a = SCHOOL_SHORT -> Some("Art")
      [] a = SCHOOL_STREET -> Some("Main")
      [] OTHER -> None

\* the match of [A-Z][a-z]+ that ends the atom
EndWord(a) ==
    CASE a \in CityWords -> Some(a)
      [] a = "Ilyas Malik" -> Some("Malik")
      [] a = "Domestic Claims" -> Some("Claims")
      [] a = PRINT_NAME -> Some("Name")
      [] a = STREET -> Some("Avenue")
      [] a \in {"World Trips", WORLDTRIPS} -> Some("Trips")
      [] a = "Home Country" -> Some("Country")
      [] a = COUNTRY_PAIR -> Some("Turkey")
      [] a \in {SCHOOL_LONG, SCHOOL_SHORT} -> Some("School")
      [] a = SCHOOL_STREET -> Some("Road")
      [] OTHER -> None

\* the matches of [A-Z][a-z]+\s+[A-Z][a-z]+ that start in atom i of s, leftmost
\* first: the one inside the atom, and the one from its last word over
\* whitespace to the first word of a later atom. `first`: the match starts
\* where the atom starts; `whole`: it ends where its last atom ends
PairsAt(s, i) ==
    LET k == RunEnd(s, i + 1, Whitespace)
        inner == IF PairIn(s[i]) = None THEN <<>>
                 ELSE <<[value |-> <<PairIn(s[i])[1]>>, at |-> i, last |-> i,
                         first |-> StartWord(s[i]) # None,
                         whole |-> PairIn(s[i])[1] = s[i]]>>
        cross == IF /\ EndWord(s[i]) # None
                    /\ k > i
                    /\ k < Len(s)
                    /\ StartWord(s[k + 1]) # None
                 THEN <<[value |-> <<EndWord(s[i])[1]>> \o SubSeq(s, i + 1, k)
                                      \o <<StartWord(s[k + 1])[1]>>,
                         at |-> i, last |-> k + 1,
                         first |-> EndWord(s[i])[1] = s[i],
                         whole |-> StartWord(s[k + 1])[1] = s[k + 1]]>>
                 ELSE <<>>
    IN inner \o cross

RECURSIVE PairsFrom(_, _)
PairsFrom(s, i) == IF i > Len(s) THEN <<>> ELSE PairsAt(s, i) \o PairsFrom(s, i + 1)

\* the first element of the sequence that satisfies the test
FirstThat(seq, Test(_)) ==
    LET ok == {i \in 1..Len(seq) : Test(seq[i])}
    IN IF ok = {} THEN None ELSE Some(seq[CHOOSE i \in ok : \A j \in ok : i <= j])

NameFalsePositives == {<<"World Trips">>, <<"Claimant Statement">>, <<"Farmington Hills">>,
                       <<"Male">>, <<"Female">>}
\* atoms whose first character is "A", and atoms whose last character is ":"
StartsWithA == {"A", LBL_POSTAL, LBL_PHONE, LBL_SECOND, LBL_COUNTRIES}
EndsWithColon == {":", LBL_POSTAL, LBL_PHONE, LBL_SECOND, LBL_COUNTRIES, LBL_POLICY,
                  LBL_SCHOOL, LBL_CITY}

\* FormParser._extract_name_value
_extract_name_value(text) ==
    LET lines == SplitLines(text)
        last_lines == SubSeq(lines, IF Len(lines) > 10 THEN Len(lines) - 9 ELSE 1, Len(lines))
        \* line 294: the first match of each line; line 298: the first of them
        \* that is not a known false positive
        firsts == [i \in 1..Len(last_lines) |-> PairsFrom(last_lines[i], 1)]
        Named(ps) == ps # <<>> /\ ps[1].value \notin NameFalsePositives
        by_line == FirstThat(firsts, Named)
        \* line 302: ([A-Z][a-z]+\s+[A-Z][a-z]+)\s+\d+@
        BeforeAt(p) ==
            LET w == RunEnd(text, p.last + 1, Whitespace)
                n == RunEnd(text, w + 1, Digits)
            IN p.whole /\ w > p.last /\ n > w /\ n < Len(text) /\ text[n + 1] = "@"
        by_at == FirstThat(PairsFrom(text, 1), BeforeAt)
        \* line 307: PART A[^1]*1A.*?:\s*([A-Z][a-z]+\s+[A-Z][a-z]+)\s*2A
        ones == {i \in 1..Len(text) : text[i] = "1"}
        After1A(h) ==
            LET q == CHOOSE i \in ones : i > h /\ \A j \in ones : j > h => i <= j
            IN IF \E i \in ones : i > h
               THEN IF q < Len(text) /\ text[q + 1] \in StartsWithA THEN Some(q + 1) ELSE None
               ELSE None
        Between(p, h) ==
            LET a == After1A(h)
                w == RunEnd(text, p.last + 1, Whitespace)
            IN /\ a # None
               /\ p.first /\ p.whole
               /\ \E c \in a[1]..(p.at - 1) :
                      /\ text[c] \in EndsWithColon
                      /\ RunEnd(text, c + 1, Whitespace) = p.at - 1
               /\ w + 2 <= Len(text) /\ text[w + 1] = "2" /\ text[w + 2] \in StartsWithA
        heads == {i \in 1..Len(text) : text[i] = PART_A}
        UnderHead(p) == \E h \in heads : h < p.at /\ Between(p, h)
        by_label == FirstThat(PairsFrom(text, 1), UnderHead)
    IN IF by_line # None THEN Some(by_line[1][1].value)
       ELSE IF by_at # None THEN Some(by_at[1].value)
       ELSE IF by_label # None THEN Some(by_label[1].value)
       ELSE None

\* one assignment fields[key] = value by the named strategy
Write(key, strategy, value) == [key |-> key, strategy |-> strategy, value |-> value]

NameLabels == {<<"Home Country">>, <<"World Trips">>, <<"Claimant Statement">>}

\* form_parser.py:206-211, fields['1a_claimant_full_name']
NameWrites(text) ==
    LET name == _extract_name_value(text)
        \* ([A-Z][a-z]+\s+[A-Z][a-z]+)\n(?=\d+\s+[A-Z])
        AboveAddress(p) ==
            LET n == RunEnd(text, p.last + 2, Digits)
                w == RunEnd(text, n + 1, Whitespace)
            IN /\ p.whole
               /\ p.last < Len(text) /\ text[p.last + 1] = "\n"
               /\ n > p.last + 1 /\ w > n /\ w < Len(text) /\ StartsUpper(text[w + 1])
        match == FirstThat(PairsFrom(text, 1), AboveAddress)
    IN <<Write("1a_claimant_full_name", "_extract_name_value", name)>>
       \o (IF (name = None \/ name[1] \in NameLabels) /\ match # None
           THEN <<Write("1a_claimant_full_name", "above_address", Some(match[1].value))>>
           ELSE <<>>)

\* form_parser.py:263-274, fields['12a_policy_or_certificate_number']
PolicyWrites(text) ==
    LET \* (?:Policy|Certificate)\s*Number:?\s*(\d+)
        from(i) == RunEnd(text, i + 1, Whitespace) + 1
        label == FirstOf({i \in 1..Len(text) :
                             text[i] = LBL_POLICY /\ RunEnd(text, from(i), Digits) >= from(i)})
        p_num == IF label = 0 THEN None
                 ELSE Some(SubSeq(text, from(label), RunEnd(text, from(label), Digits)))
        primary == IF p_num # None /\ Len(p_num[1]) > 6 THEN p_num ELSE None
        \* (\d{9,10})
        run == FirstOf({i \in 1..Len(text) : DigitsAt(text, i, i + 8)})
        match == IF run = 0 THEN None
                 ELSE Some(SubSeq(text, run, IF DigitsAt(text, run, run + 9)
                                             THEN run + 9 ELSE run + 8))
    IN <<Write("12a_policy_or_certificate_number", "label", primary)>>
       \o (IF primary = None /\ match # None /\ Contains(text, COUNTRY_PAIR)
           THEN <<Write("12a_policy_or_certificate_number", "digits", match)>>
           ELSE <<>>)

\* atoms that hold a ".": the dot itself, and the labels that go on after "A."
HasDot == {".", LBL_POSTAL, LBL_PHONE, LBL_SECOND, LBL_COUNTRIES}

\* form_parser.py:278-282, fields['15a_countries_visited']
CountriesWrites(text) ==
    LET \* 15A\.\s*Countries Visited:?\s*([^\.]+), then strip(): the group
        \* runs to the next "."; when nothing stands between the label and
        \* that ".", the ":" of the label is left to the group
        label == FirstOf({i \in 3..Len(text) :
                             /\ text[i] = LBL_COUNTRIES
                             /\ text[i - 1] = "5" /\ text[i - 2] = "1"})
        dot == FirstOf({i \in (label + 1)..Len(text) : text[i] \in HasDot})
        stop == IF dot = 0 THEN Len(text) ELSE dot - 1
        cut == IF dot # 0 /\ text[dot] # "." THEN <<"A">> ELSE <<>>
        group == SubSeq(text, label + 1, stop) \o cut
        value == IF label = 0 THEN None
                 ELSE IF group = <<>> THEN Some(<<":">>)
                 ELSE Some(Strip(group))
        \* \n([A-Z][a-z]+,\s*[A-Z][a-z]+)
        below == FirstOf({i \in 1..(Len(text) - 1) :
                             text[i] = "\n" /\ text[i + 1] = COUNTRY_PAIR})
    IN <<Write("15a_countries_visited", "label", value)>>
       \o (IF (value = None \/ value[1] = <<>> \/ Contains(value[1], WORLDTRIPS)) /\ below # 0
           THEN <<Write("15a_countries_visited", "below", Some(<<COUNTRY_PAIR>>))>>
           ELSE <<>>)

\* the assignments of _parse_part_a to the fields it fills by a chain
PartAWrites(text) == NameWrites(text) \o PolicyWrites(text) \o CountriesWrites(text)

\* the match of [A-Z][a-z\s,-]+(?:High School|University|College|School)
\* inside the atom
SchoolIn(a) ==
    CASE a \in {SCHOOL_LONG, SCHOOL_SHORT} -> Some(a)
      [] a = LBL_SCHOOL -> Some("Name of School")
      [] OTHER -> None

\* re.findall of that pattern: the matches in the order of the text
RECURSIVE SchoolMatches(_)
SchoolMatches(text) ==
    IF text = <<>> THEN <<>>
    ELSE (IF SchoolIn(Head(text)) = None THEN <<>> ELSE <<SchoolIn(Head(text))[1]>>)
         \o SchoolMatches(Tail(text))

\* lines 491-494: longer than 10 characters, without 'WorldTrips' and without
\* ' of School'
IsSchoolName(m) == m = SCHOOL_LONG

\* form_parser.py:488-515, fields['16a_school_name']
SchoolNameWrites(text) ==
    LET IsName(m) == IsSchoolName(m)
        primary == FirstThat(SchoolMatches(text), IsName)
        label == FirstOf({i \in 1..Len(text) : text[i] = LBL_SCHOOL})
        remaining_text == SubSeq(text, label + 1, Len(text))
        \* every match is longer than 3 characters and holds no 'WorldTrips'
        school_match == IF label = 0 \/ SchoolMatches(remaining_text) = <<>> THEN None
                        ELSE Some(SchoolMatches(remaining_text)[1])
    IN IF primary # None
       THEN <<Write("16a_school_name", "pattern", Some(<<primary[1]>>))>>
       ELSE IF school_match # None
       THEN <<Write("16a_school_name", "after_label", Some(<<school_match[1]>>))>>
       ELSE <<>>

\* atoms matched by [A-Z][a-z]+\s+(?:Road|Rd|Street|St|Avenue|Ave)
StreetAtoms == {STREET, SCHOOL_STREET}
\* atoms that start with MA, NY, CA or USA
StateAtoms == {"MA"}
CityLabels == {LBL_CITY}

\* re.search(r'X?(\d+\s+[A-Z][a-z]+\s+(?:Road|Rd|Street|St|Avenue|Ave))', text):
\* the positions of the first and the last atom of group 1, or 0
SchoolAddressAt(text) ==
    LET street(i) == RunEnd(text, RunEnd(text, i, Digits) + 1, Whitespace) + 1
        first == FirstOf({i \in 1..Len(text) :
                             /\ IsDigit(text[i])
                             /\ RunEnd(text, RunEnd(text, i, Digits) + 1, Whitespace)
                                   > RunEnd(text, i, Digits)
                             /\ street(i) <= Len(text) /\ text[street(i)] \in StreetAtoms})
    IN IF first = 0 THEN <<0, 0>> ELSE <<first, street(first)>>

\* form_parser.py:521-532, fields['16a_school_city']
SchoolCityWrites(text) ==
    LET \* (?:City:|Address:).*?([A-Z][a-z]+)(?=\n(?:MA|NY|CA|USA))
        label == FirstOf({i \in 1..Len(text) : text[i] \in CityLabels})
        cand == FirstOf({i \in (label + 1)..(Len(text) - 2) :
                            /\ label # 0
                            /\ EndWord(text[i]) # None
                            /\ text[i + 1] = "\n" /\ text[i + 2] \in StateAtoms})
        address == SchoolAddressAt(text)
        \* re.escape(address) + r'.*?\n([A-Z][a-z]+)'
        m == FirstOf({i \in (address[2] + 1)..(Len(text) - 1) :
                         /\ address[1] # 0
                         /\ text[i] = "\n" /\ StartWord(text[i + 1]) # None})
    IN (IF cand # 0
        THEN <<Write("16a_school_city", "city_cand", Some(<<EndWord(text[cand])[1]>>))>>
        ELSE <<>>)
       \o (IF m # 0
           THEN <<Write("16a_school_city", "below_address",
                        Some(<<StartWord(text[m + 1])[1]>>))>>
           ELSE <<>>)

\* the assignments of _parse_part_a_continued to the fields it fills by a chain
PartAContinuedWrites(text) == SchoolNameWrites(text) \o SchoolCityWrites(text)

\* the assignments of the extractors that filled the page
PageWrites(page) ==
    IF page.form_fields = None THEN <<>>
    ELSE CASE page.form_fields[1].extractor = "_parse_part_a" ->
                  PartAWrites(page.form_fields[1].text)
           [] page.form_fields[1].extractor = "_parse_part_a_continued" ->
                  PartAContinuedWrites(page.form_fields[1].text)
           [] OTHER -> <<>>

-----------------------------------------------------------------------------

\* the dictionary the named extractor returns for the page text
ExtractorResult(field_map) ==
    CASE field_map.extractor = "_parse_part_a" -> _parse_part_a(field_map.text)
      [] field_map.extractor = "_parse_part_a_continued" ->
            _parse_part_a_continued(field_map.text)
      [] field_map.extractor = "_parse_supplement_c" -> _parse_supplement_c(field_map.text)
      [] field_map.extractor = "_parse_part_d" -> _parse_part_d(field_map.text)
      [] field_map.extractor = "_parse_third_party" -> _parse_third_party(field_map.text)

\* the stages the named extractor applies on the page text
ExtractorStages(field_map) ==
    CASE field_map.extractor = "_parse_part_a" -> PartAStages(field_map.text)
      [] field_map.extractor = "_parse_part_a_continued" ->
            PartAContinuedStages(field_map.text)
      [] field_map.extractor = "_parse_supplement_c" -> SupplementCStages(field_map.text)
      [] field_map.extractor = "_parse_part_d" -> PartDStages(field_map.text)
      [] field_map.extractor = "_parse_third_party" -> ThirdPartyStages(field_map.text)

\* the groups of a page whose extractors are given above
FieldGroups == <<"form_fields", "signatures", "third_party_payment_form">>

\* the field maps of a page returned by _parse_page
PageFields(page) ==
    [g \in {FieldGroups[i] : i \in 1..Len(FieldGroups)} |->
        IF page[g] = None THEN None ELSE Some(ExtractorResult(page[g][1]))]

\* the stages applied while _parse_page builds the page, group after group
\* in the order of the assignments of lines 101-124
PageStages(page) ==
    LET of(g) == IF page[g] = None THEN <<>> ELSE ExtractorStages(page[g][1])
    IN of("form_fields") \o of("signatures") \o of("third_party_payment_form")

\* a call _parse_page(in_text, in_num) with its field maps
CallParsePageFields ==
    LET page == _parse_page(in_text, in_num)
    IN /\ out_page' = Some(page)
       /\ out_fields' = Some(PageFields(page))
       /\ stage_calls' = PageStages(page)
       /\ field_writes' = PageWrites(page)
       /\ out_tables' = PageTables(page)
       /\ out_part_b' = IF page.part_b = None THEN None
                        ELSE Some(_parse_part_b(page.part_b[1].text))
       /\ UNCHANGED <<parserVars, in_text, in_num, out_doc, out_pages, out_section,
                      first_section, normVars, dateVars, runVars, threadVars, scoreVars,
                      evalVars, output_files>>

\* the atoms of a sequence of words
RECURSIVE Atoms(_)
Atoms(words) == IF words = <<>> THEN <<>> ELSE Head(words) \o Atoms(Tail(words))

COMPANY_ZIP == <<"4", "8", "3", "3", "3">>
PartAWords == {COMPANY_ZIP, <<"0", "2", "1", "3", "9">>, <<"9", LBL_PHONE>>,
               <<"1", "0", LBL_SECOND>>, <<"5", "5", "5", "1", "2", "3", "4">>,
               <<"1", "2">>, <<"2", "4", "5">>, <<" ">>, <<"X">>,
               <<"0", "1", "/", "0", "2", "/", "2", "0", "2", "0">>,
               <<"6", "1", "7", "5", "5", "5", "1", "2", "3">>}
PartDWords == {<<"9", "/", "5", "/", "2", "0", "2", "3">>, <<"Ilyas Malik">>,
               <<"Domestic Claims">>, <<PRINT_NAME>>, <<"\n">>, <<" ">>}
SupplementCWords == {<<"7", LBL_POSTAL>>, COMPANY_ZIP, <<"0", "2", "1", "3", "9">>,
                     <<"6", "9", " ", STREET>>, <<" ">>, <<THIRD_PARTY>>,
                     <<"9", "/", "5", "/", "2", "0", "2", "3">>}

\* the page texts: a section header followed by at most MaxWords words
TextsOf(header, words) == {<<header>> \o Atoms(ws) : ws \in SeqsUpTo(words, MaxWords)}
FieldTexts == TextsOf(PART_A, PartAWords) \cup TextsOf(PART_D, PartDWords)
              \cup TextsOf(SUPPLEMENT_C, SupplementCWords)
PartBWords == {<<TRAVEL_DELAY>>, <<LOST_LUGGAGE>>, <<TRIP_INTERRUPTION>>, <<COVID>>,
               <<LBL_OTHER>>, <<"X">>, <<"x">>, <<CHECK>>, <<" ">>, <<"\n">>,
               <<INCIDENT>>, <<":">>, <<"none">>, <<DOCUSIGN>>, <<"delayed flight">>}
\* second pages, which carry PART B below the PART A header
PartBTexts == TextsOf(PART_A, PartBWords)
\* first pages with a name, a policy number and the countries visited
ChainWords == {<<"Ilyas Malik">>, <<"World Trips">>, <<"Home Country">>, <<" ">>,
               <<"\n", "6", "9", " ", STREET>>, <<" ", "1", "@">>, <<"1", "A", ":">>,
               <<"2", "A">>, <<LBL_POLICY, "1", "2", "3", "4", "5", "6", "7">>,
               <<LBL_POLICY, " ", "1", "2">>, <<"9", "8", "7", "6", "5", "4", "3", "2", "1">>,
               <<"\n", COUNTRY_PAIR>>, <<"1", "5", LBL_COUNTRIES>>, <<WORLDTRIPS>>, <<".">>}
ChainTexts == TextsOf(PART_A, ChainWords)
\* second pages with a school and its address
SchoolWords == {<<SCHOOL_LONG>>, <<SCHOOL_SHORT>>, <<LBL_SCHOOL>>, <<"\n">>, <<" ">>,
                <<"1", " ", SCHOOL_STREET>>, <<LBL_CITY, "Boston", "\n", "MA">>,
                <<"Salem">>, <<"MA">>, <<LBL_CITY>>}
SchoolTexts == TextsOf(PART_A, SchoolWords)
\* itemization pages
TableWords == {<<"0", "7", "/", "0", "9", "/", "2", "3">>, <<"1", "/", "0", "2", "/", "2", "0", "2", "4">>,
               <<"4", "5", "8", ".", "3", "5">>, <<"1", ".", "5">>, <<"\n">>, <<" ">>,
               <<"ACIBADEM", "\n", HOSPITAL>>, <<"MEMORIAL", " ", HOSPITAL>>, <<HOSPITAL>>,
               <<"virus">>, <<"Medication">>, <<"TL">>}
TableTexts == TextsOf(SUPPLEMENT_A, TableWords)

\* page-level calls with the extractors: one page per behaviour
InitFields ==
    /\ InitParserFields
    /\ InitThreadsIdle
    /\ InitRunIdle
    /\ InitOutputs
    /\ InitNormIdle
    /\ InitDateIdle
    /\ \/ in_text \in FieldTexts /\ in_num \in 1..2
       \/ in_text \in PartBTexts /\ in_num = 2
       \/ in_text \in ChainTexts /\ in_num = 1
       \/ in_text \in SchoolTexts /\ in_num = 2
       \/ in_text \in TableTexts /\ in_num = 1
    /\ out_fields = None
    /\ stage_calls = <<>>
    /\ out_tables = None
    /\ field_writes = <<>>
    /\ output_files = {}
    /\ out_part_b = None
    /\ detailed_results = <<>>
    /\ confidence_score = None
    /\ reference = None
    /\ hypothesis = None
    /\ cer = None
    /\ pred_json = None
    /\ truth_json = None
    /\ report = None

NextFields == CallParsePageFields

SpecFields == InitFields /\ [][NextFields]_vars

\* the value the page of the last call holds under key k of group g, None
\* when the group or the key is absent or the value is None
Emitted(g, k) ==
    IF out_fields = None \/ out_fields[1][g] = None THEN None
    ELSE IF k \in DOMAIN out_fields[1][g][1] THEN out_fields[1][g][1][k]
    ELSE None

\* C11: the ZIP-code fields 7a_postal_code, 16a_school_postal_code and
\* beneficiary_postal_code never hold the company ZIP 48333.
C11_CompanyZipNeverEmitted ==
    \A k \in {"7a_postal_code", "16a_school_postal_code", "beneficiary_postal_code"} :
        Emitted("form_fields", k) # Some(COMPANY_ZIP)

\* C12: the phone fields 9a_primary_telephone and 10a_secondary_telephone are
\* absent or hold at least seven digits.
C12_PhonesHaveSevenDigits ==
    \A k \in {"9a_primary_telephone", "10a_secondary_telephone"} :
        Emitted("form_fields", k) # None => DigitCount(Emitted("form_fields", k)[1]) >= 7

\* C13: no field map of a page holds the empty string under any key.
C13_NoEmptyStringValue ==
    out_fields # None =>
        \A g \in DOMAIN out_fields[1] :
            out_fields[1][g] # None =>
                \A k \in DOMAIN out_fields[1][g][1] : out_fields[1][g][1][k] # Some(<<>>)

\* the stages applied to key k during the last call, in order
StagesOfKey(k) ==
    LET of_key == SelectSeq(stage_calls, LAMBDA c : c.key = k)
    IN [i \in 1..Len(of_key) |-> of_key[i].stage]

StageRank(stage) ==
    CASE stage = "clean" -> 1 [] stage = "normalize" -> 2 [] stage = "validate" -> 3

\* the page of the last call holds a value under key k in some group
IsEmitted(k) == \E i \in 1..Len(FieldGroups) : Emitted(FieldGroups[i], k) # None

\* C20: on every key the page holds a value under, the stages applied run in
\* the order clean, normalize, validate: the value is never normalized or
\* validated before it is cleaned, nor validated before it is normalized.
C20_CleanNormalizeValidate ==
    \A c \in {stage_calls[i] : i \in 1..Len(stage_calls)} :
        IsEmitted(c.key) =>
            LET stages == StagesOfKey(c.key)
            IN \A i, j \in 1..Len(stages) :
                  i < j => StageRank(stages[i]) <= StageRank(stages[j])

\* the value of key k of 1b_applying_for on the page of the last call
AppliesFor(k) == out_part_b[1]["1b_applying_for"][k]

\* label followed, after whitespace only, by a mark glyph somewhere in text
LabelMarked(text, label) ==
    \E i \in 1..Len(text), j \in 1..Len(text) :
        /\ i < j /\ text[i] = label /\ text[j] \in MarkGlyphs
        /\ \A m \in (i + 1)..(j - 1) : text[m] \in Whitespace

\* the sentinel tokens of the Clean stage, and values equal to one of them
\* whatever the case of their letters
Sentinels == {<<"none">>, <<"n/a">>, <<"unspecified">>}
LowerToken(a) == IF a = NOT_AVAILABLE THEN "n/a" ELSE a
IsSentinel(value) == [i \in 1..Len(value) |-> LowerToken(value[i])] \in Sentinels

\* C21: no field value of a page is one of the sentinel tokens "none", "n/a",
\* "unspecified", whatever the case of its letters.
C21_NoSentinelEmitted ==
    /\ out_part_b # None => ~IsSentinel(out_part_b[1]["2b_incident_details"][1])
    /\ out_fields # None =>
          \A i \in 1..Len(FieldGroups) :
              out_fields[1][FieldGroups[i]] # None =>
                  \A k \in DOMAIN out_fields[1][FieldGroups[i]][1] :
                      LET v == out_fields[1][FieldGroups[i]][1][k]
                      IN v # None => ~IsSentinel(v[1])

\* C24: a key of part_b.1b_applying_for is true only if its label is followed,
\* after whitespace only, by a mark glyph; a label without a mark gives false.
C24_CheckedOnlyWhenMarked ==
    out_part_b # None =>
        \A k \in ApplyingForKeys :
            AppliesFor(k) => LabelMarked(in_text, LabelOf(k))

-----------------------------------------------------------------------------
(* measure_accuracy.py on arbitrary JSON documents *)

\* documents whose field maps hold numbers, nested maps and lists, keys
\* with the separator of flatten_json in them, and a key shared by two maps
ONE == <<"1">>
JsonTruthLeaves == {JNull, JBool(TRUE), JStr(ONE)}
JsonPredLeaves == {JNum(1), JBool(TRUE), JStr(ONE)}

\* {"a": x, "b": y}, {"a": {"b": x}, "a_b": y} and {"a": [x, y]}
JsonMaps(leaves) ==
    {JDict(<< << <<"a">>, x >>, << <<"b">>, y >> >>) : x \in leaves, y \in leaves}
    \cup {JDict(<< << <<"a">>, JDict(<< << <<"b">>, x >> >>) >>,
                   << <<"a", "_", "b">>, y >> >>) : x \in leaves, y \in leaves}
    \cup {JDict(<< << <<"a">>, JList(<<x, y>>) >> >>) : x \in leaves, y \in leaves}

JsonPages(leaves) ==
    {[NoPage EXCEPT !.page = 1, !.form_fields = Some(m), !.signatures = s, !.tables = t] :
        m \in JsonMaps(leaves),
        s \in {None, Some(JDict(<< << <<"a">>, JBool(TRUE) >> >>))},
        t \in {None, Some(JDict(<< << <<"t">>, JStr(ONE) >> >>))}}

InitJson ==
    /\ InitParserFields
    /\ InitThreadsIdle
    /\ InitRunIdle
    /\ InitCallsIdle
    /\ InitNormIdle
    /\ InitDateIdle
    /\ out_fields = None
    /\ stage_calls = <<>>
    /\ out_tables = None
    /\ field_writes = <<>>
    /\ output_files = {}
    /\ out_part_b = None
    /\ detailed_results = <<>>
    /\ confidence_score = None
    /\ reference = None
    /\ hypothesis = None
    /\ cer = None
    /\ pred_json \in {Some([pages |-> <<>>])}
                      \cup {Some([pages |-> <<p>>]) : p \in JsonPages(JsonPredLeaves)}
    /\ truth_json \in {Some([pages |-> <<p>>]) : p \in JsonPages(JsonTruthLeaves)}
    /\ report = None

NextJson == CallMain

SpecJson == InitJson /\ [][NextJson]_vars

\* C25: on every page row, 0 <= exact_matches <= norm_matches <= total_fields.
C25_ExactWithinNormalized ==
    report # None =>
        \A i \in 1..Len(report[1].rows) :
            LET metrics == report[1].rows[i].metrics
            IN /\ 0 <= metrics.exact_matches
               /\ metrics.exact_matches <= metrics.norm_matches
               /\ metrics.norm_matches <= metrics.total_fields

\* the number of non-null leaves of a JSON value, each counted at its own path
RECURSIVE LeafCount(_)
RECURSIVE LeafCountFrom(_, _)
LeafCount(x) ==
    IF x.t \in {"dict", "list"} THEN LeafCountFrom(x, 1)
    ELSE IF x.t = "null" THEN 0 ELSE 1
LeafCountFrom(x, i) ==
    IF i > Len(x.items) THEN 0
    ELSE LeafCount(IF x.t = "dict" THEN x.items[i][2] ELSE x.items[i])
         + LeafCountFrom(x, i + 1)

MapLeafCount(map_opt) == IF map_opt = None THEN 0 ELSE LeafCount(map_opt[1])

\* C26: total_fields of a page is the number of non-null leaves of the truth
\* page's form_fields, signatures, part_b and third_party_payment_form maps:
\* no two leaves fall on one flat key.
C26_NoLeafLost ==
    report # None =>
        \A i \in 1..Len(report[1].rows) :
            LET page == truth_json[1].pages[i]
            IN report[1].rows[i].metrics.total_fields =
                   MapLeafCount(page.form_fields) + MapLeafCount(page.signatures)
                   + MapLeafCount(page.part_b) + MapLeafCount(page.third_party_payment_form)

\* the keys of the mismatch lines written for truth page i
MismatchKeys(i) ==
    {report[1].mismatches[l].key :
        l \in {m \in 1..Len(report[1].mismatches) :
                  report[1].mismatches[m].page = truth_json[1].pages[i].page}}

\* C27: for every truth page the mismatch lines are the non-null truth leaves
\* counted in total_fields and not in norm_matches, one line each.
C27_PassesAgree ==
    report # None =>
        \A i \in 1..Len(report[1].rows) :
            /\ MismatchKeys(i) =
                   {TruthFlat(i)[k][1] :
                       k \in {n \in NonNullLeaves(i) :
                                 normalize_text(PredLeafFor(i, n))
                                     # normalize_text(TruthFlat(i)[n][2])}}
            /\ Cardinality(MismatchKeys(i)) =
                   report[1].rows[i].metrics.total_fields
                   - report[1].rows[i].metrics.norm_matches

\* C30: when process_document returns success == False, the run has written
\* no output file.
C30_NoFilesOnFailure ==
    (result # None /\ ~result[1].success) => output_files = {}

\* the tokens of a text that are neither whitespace nor a page marker
Content(text) == SelectSeq(text, LAMBDA c : c \notin Whitespace \cup PageMarkers)

\* the text OCREngine.extract_text returned for the k-th image of the run
ImageText(k) == extract_text(input.pages[image_paths[1][k].page]).text

\* the retained tokens tagged page == k in the detailed results
TaggedTokens(k) == SelectSeq(all_detailed_results[1], LAMBDA r : r.page = k)

\* the run recognized its text and returned success
RecognitionDone ==
    /\ result # None /\ result[1].success
    /\ text_sources = <<"ocr">>

\* C28: in the recognition path the StructuredPage with page == k is built
\* from the text of the k-th image, the image whose retained tokens are
\* tagged page == k.
C28_PagesAligned ==
    RecognitionDone =>
        \A i \in 1..Len(structured_form[1].pages) :
            LET page == structured_form[1].pages[i]
            IN /\ page.page <= Len(image_paths[1])
               /\ Content(page.raw_text) = Content(ImageText(page.page))
               /\ Len(TaggedTokens(page.page)) = Len(input.pages[image_paths[1][page.page].page].lines)

-----------------------------------------------------------------------------
(* parse_document calls made one after the other on one FormParser: call t
   starts when every earlier call has returned or raised *)

\* the earlier calls are over
Turn(t) == \A u \in Threads : u < t => t_pc[u] \in {"done", "raised"}

\* form_parser.py:57-59, the statement the call is executing raises
\* (_split_pages at line 35, an extractor under _parse_page at line 43): the
\* error is logged and raised again, and parse_document assigns nothing more
TRaise(t) ==
    /\ \/ t_pc[t] = "line35"
       \/ t_pc[t] = "line42" /\ t_i[t] <= Len(t_pages[t])
    /\ t_pc' = [t_pc EXCEPT ![t] = "raised"]
    /\ UNCHANGED <<parserVars, heapVars, t_args, t_pages, t_i, t_result, notThreads>>

InitSeq == InitThreads

NextSeq ==
    \E t \in Threads :
        \/ Turn(t) /\ TSplit(t)
        \/ Turn(t) /\ TMetadata(t)
        \/ Turn(t) /\ TReset(t)
        \/ Turn(t) /\ TParsePage(t)
        \/ Turn(t) /\ TBuild(t)
        \/ Turn(t) /\ TTotal(t)
        \/ Turn(t) /\ TRaise(t)

SpecSeq == InitSeq /\ [][NextSeq]_vars

-----------------------------------------------------------------------------
(* Chains of strategies (SpecFields) *)

\* the test under which the extractor keeps the value of a strategy and runs
\* no fallback: lines 207, 265, 279, 500 and 521 of form_parser.py
Accepted(key, value) ==
    /\ value # None
    /\ value[1] # <<>>
    /\ key = "1a_claimant_full_name" => value[1] \notin NameLabels
    /\ key = "15a_countries_visited" => ~Contains(value[1], WORLDTRIPS)

\* C22 as stated: a fallback strategy is applied only if the strategies before
\* it yielded no value or an implausible one: once a strategy of the chain of
\* the claimant name, the policy number, the countries visited, the school
\* name or the school city has assigned an accepted value, no later strategy
\* assigns the field again.
C22_AcceptedNeverReplaced ==
    \A i, j \in 1..Len(field_writes) :
        (i < j /\ field_writes[i].key = field_writes[j].key)
            => ~Accepted(field_writes[i].key, field_writes[i].value)

-----------------------------------------------------------------------------
(* The itemization table of SUPPLEMENT A (SpecFields) *)

\* C23 as stated: the table of supplement A has one row per date-shaped
\* token, and the i-th row, in the order of its date, holds the i-th collected
\* amount and the i-th collected provider name, each in the order of the text.
C23_RowsAlignedWithTokens ==
    out_tables # None =>
        LET rows == out_tables[1].supplement_a_items
            amounts == AmountTokens(in_text, 1)
            providers == Providers(in_text)
        IN /\ Len(rows) = Len(DateTokens(in_text, 1))
           /\ \A i \in 1..Len(rows) :
                  /\ i <= Len(amounts) => rows[i].amount_charged = Some(amounts[i])
                  /\ i <= Len(providers) => rows[i].provider = Some(providers[i])

====
